---------------------------- MODULE Spec2Model ----------------------------
(***************************************************************************)
(* A model of the travel retrieval pipeline of travel_rag_qa:              *)
(*   - HybridRetriever.reciprocal_rank_fusion and HybridRetriever.search   *)
(*     (retrieval/hybrid_retriever.py),                                    *)
(*   - the FastAPI start-up hook and the /api/search and /api/health       *)
(*     handlers (app/main.py),                                             *)
(*   - QueryRewriter.rewrite_query (retrieval/query_rewriter.py).          *)
(*                                                                         *)
(* Python floats are modelled as exact rationals [num, den] in lowest      *)
(* terms.  Within the bounds used here distinct rationals are further      *)
(* apart than binary64 rounding, so float comparison and exact comparison  *)
(* agree.  A Python dict is modelled as a function (its DOMAIN the keys)   *)
(* and, where the code depends on insertion order, as the sequence of its  *)
(* keys in insertion order together with that function.                    *)
(***************************************************************************)
EXTENDS Integers, Sequences, FiniteSets, TLC

VARIABLES
    \* ---- HybridRetriever.reciprocal_rank_fusion ----
    rrf_k,            \* self.rrf_k
    bm25_results,     \* argument bm25_results: list of result dicts
    vector_results,   \* argument vector_results: list of result dicts
    final_results,    \* the returned list
    fusion_pc,        \* "idle" (not part of the run), "call", "returned"
    \* ---- HybridRetriever.search ----
    limit,            \* argument limit
    use_hybrid,       \* argument use_hybrid
    bm25_ranking,     \* the doc_ids the BM25 side ranks for the query, best first
    vector_ranking,   \* the doc_ids Qdrant ranks for the query, best first
    embedding_ok,     \* whether the embedding call for the query succeeds
    qdrant_ok,        \* whether the Qdrant query succeeds
    hybrid_response,  \* what search returned, or that it raised
    hybrid_pc,        \* "idle", "bm25", "vector", "fuse", "done"
    hybrid_events,    \* the calls search issued and their returns, in order
    \* ---- app/main.py ----
    LANGCHAIN_AVAILABLE,  \* set by the import at module load
    existing_paths,   \* the paths for which os.path.exists is True
    failing_ctors,    \* the retriever classes whose constructor raises
    module_globals,   \* the module-level names baseline_retriever, ...
    constructed,      \* the classes whose constructor returned during start-up
    request,          \* the SearchRequest being answered
    http_response,    \* the HTTP response of the last request
    app_pc,           \* "idle", "startup", "serving"
    \* ---- QueryRewriter.rewrite_query ----
    user_query,       \* argument user_query, a string
    llm_reply,        \* what self.client.chat.completions.create does
    rewrite_outcome,  \* what rewrite_query returned, or that it raised
    rewrite_pc,       \* "idle", "call", "returned"
    \* ---- ImprovedRetriever.search_with_filters ----
    swf_query,        \* argument query, a string
    swf_city,         \* argument city, a string (None is the empty string)
    swf_country,      \* argument country, likewise
    swf_activities,   \* argument activities, a list of strings (None is [])
    swf_limit,        \* argument limit
    swf_searches,     \* the calls of self.searcher.search: query and hits
    swf_results,      \* the returned list
    swf_pc,           \* "idle", "call", "returned"
    \* ---- ActivityMatcher.expand_activity ----
    ea_activity,      \* argument activity, a string
    ea_expanded,      \* the returned set
    ea_pc,            \* "idle", "call", "returned"
    \* ---- ActivityMatcher._fuzzy_match ----
    fm_query_activity,  \* argument query_activity
    fm_data_activity,   \* argument data_activity
    fm_outcome,       \* what _fuzzy_match returned and the similarity it saw
    fm_pc,            \* "idle", "call", "returned"
    \* ---- ActivityMatcher.match_activities, find_matching_activities ----
    ma_query_activities, \* argument query_activities, a list of strings
    ma_data_activities, \* argument data_activities, a list of strings
    ma_outcome,       \* which method returned, and its value
    ma_pc,            \* "idle", "call", "returned"
    \* ---- EmbeddingGenerator.generate_embeddings_batch ----
    eb_model,         \* self.model
    eb_texts,         \* argument texts, a list of strings
    eb_batch_size,    \* argument batch_size
    eb_failing_batches, \* the batches whose embeddings.create call raises
    eb_failing_texts, \* the positions whose single embeddings.create call raises
    eb_embeddings,    \* the returned list
    eb_pc,            \* "idle", "call", "returned"
    \* ---- repeated ActivityMatcher.expand_activity ----
    fx_term,          \* the term the expansion starts from
    fx_union,         \* the running union of the expansions
    fx_new,           \* the members the last round introduced
    fx_round,         \* the number of re-expansion rounds made
    fx_pc             \* "idle", "start", "running", "fixed"

fusionVars == <<rrf_k, bm25_results, vector_results, final_results, fusion_pc>>

hybridVars == <<limit, use_hybrid, bm25_ranking, vector_ranking, embedding_ok,
                qdrant_ok, hybrid_response, hybrid_pc, hybrid_events>>

appVars == <<LANGCHAIN_AVAILABLE, existing_paths, failing_ctors, module_globals,
             constructed, request, http_response, app_pc>>

rewriteVars == <<user_query, llm_reply, rewrite_outcome, rewrite_pc>>

filterVars == <<swf_query, swf_city, swf_country, swf_activities, swf_limit,
                swf_searches, swf_results, swf_pc>>

expandVars == <<ea_activity, ea_expanded, ea_pc>>

fuzzyVars == <<fm_query_activity, fm_data_activity, fm_outcome, fm_pc>>

matchVars == <<ma_query_activities, ma_data_activities, ma_outcome, ma_pc>>

embedVars == <<eb_model, eb_texts, eb_batch_size, eb_failing_batches, eb_failing_texts, eb_embeddings, eb_pc>>

closureVars == <<fx_term, fx_union, fx_new, fx_round, fx_pc>>

vars == <<fusionVars, hybridVars, appVars, rewriteVars, filterVars, expandVars,
          fuzzyVars,
          matchVars,
          embedVars,
          closureVars>>

-----------------------------------------------------------------------------
(* Bounds of the model.                                                    *)

\* longest result list handed to the fusion
MaxLen == 3

\* largest limit a search is called with
MaxLimit == 2

\* HybridRetriever.__init__: rrf_k: int = 60
DefaultRrfK == 60

\* the values of rrf_k the model constructs retrievers with
RrfKs == {1, DefaultRrfK}

\* A result dict whose "doc_id" key is absent or empty reads as "" in
\* doc.get("doc_id", "").
NoDocId == ""

DocIds == {"d1", "d2", "d3"}

-----------------------------------------------------------------------------
(* Exact rationals standing for Python floats.                             *)

RECURSIVE GCD(_, _)
GCD(a, b) == IF b = 0 THEN a ELSE GCD(b, a % b)

\* n / d for d > 0, in lowest terms
Rat(n, d) == LET g == GCD(n, d) IN [num |-> n \div g, den |-> d \div g]

\* the int 0 used as the default of dict.get(doc_id, 0)
Zero == [num |-> 0, den |-> 1]

\* x + y
RatAdd(x, y) == Rat(x.num * y.den + y.num * x.den, x.den * y.den)

\* x < y
RatLess(x, y) == x.num * y.den < y.num * x.den

\* variant: the rank counted from 0, as enumerate(results) without the start 1
ReciprocalRankFromZero(k, rank) == Rat(1, k + rank - 1)

\* 1.0 / (self.rrf_k + rank)
ReciprocalRank(k, rank) == Rat(1, k + rank)

-----------------------------------------------------------------------------
(* Python dicts.                                                           *)

EmptyDict == << >>

\* d[key] = value
DictSet(d, key, value) ==
    [x \in (DOMAIN d) \cup {key} |-> IF x = key THEN value ELSE d[x]]

\* d.get(key, default)
DictGet(d, key, default) == IF key \in DOMAIN d THEN d[key] ELSE default

-----------------------------------------------------------------------------
(* The result dicts the two retrievers hand to the fusion.  Only the keys  *)
(* the fusion reads or can lose are kept: "doc_id" and the "score" the     *)
(* source assigned.  Each backend returns its hits in descending score     *)
(* order, so the score is modelled as a function of the source and the     *)
(* position; the BM25 and the cosine scores of one document differ.        *)

\* ImprovedRetriever.search_with_filters: "score": result.score
Bm25Hit(doc_id, rank) == [doc_id |-> doc_id, score |-> Rat(20 - rank, 1)]

\* QdrantStore.search: "score": point.score
VectorHit(doc_id, rank) == [doc_id |-> doc_id, score |-> Rat(10 - rank, 10)]

IdLists == UNION {[1..n -> DocIds \cup {NoDocId}] : n \in 0..MaxLen}

Bm25List(ids) == [i \in 1..Len(ids) |-> Bm25Hit(ids[i], i)]

VectorList(ids) == [i \in 1..Len(ids) |-> VectorHit(ids[i], i)]

-----------------------------------------------------------------------------
(* HybridRetriever.reciprocal_rank_fusion                                  *)

\* for rank, doc in enumerate(results, 1):
\*     if doc_id: scores[doc_id] = 1.0 / (self.rrf_k + rank)
RECURSIVE ScoreMapLoop(_, _, _, _)
ScoreMapLoop(results, k, rank, scores) ==
    IF rank > Len(results) THEN scores
    ELSE LET doc_id == results[rank].doc_id IN
         ScoreMapLoop(results, k, rank + 1,
                      IF doc_id # NoDocId
                      THEN DictSet(scores, doc_id, ReciprocalRank(k, rank))
                      ELSE scores)

ScoreMap(results, k) == ScoreMapLoop(results, k, 1, EmptyDict)

\* The state of the "Combine scores" section: combined_scores (keys in
\* insertion order, and values) and all_docs.
EmptyCombined == [order |-> << >>, scores |-> EmptyDict, docs |-> EmptyDict]

\* variant: results collected in a list, one entry per occurrence
CombinedSetAppend(c, doc_id, value) ==
    [c EXCEPT !.order = Append(@, doc_id),
              !.scores = DictSet(@, doc_id, value)]

\* combined_scores[doc_id] = value; a new key goes to the end of the order
CombinedSet(c, doc_id, value) ==
    [c EXCEPT !.order = IF doc_id \in DOMAIN c.scores THEN @ ELSE Append(@, doc_id),
              !.scores = DictSet(@, doc_id, value)]

\* for doc in bm25_results:
\*     if doc_id:
\*         combined_scores[doc_id] = bm25_scores.get(doc_id, 0)
\*         all_docs[doc_id] = doc.copy()
RECURSIVE AddBm25Loop(_, _, _, _)
AddBm25Loop(results, bm25_scores, i, c) ==
    IF i > Len(results) THEN c
    ELSE LET doc    == results[i]
             doc_id == doc.doc_id
         IN AddBm25Loop(results, bm25_scores, i + 1,
              IF doc_id # NoDocId
              THEN [CombinedSet(c, doc_id, DictGet(bm25_scores, doc_id, Zero))
                        EXCEPT !.docs = DictSet(@, doc_id, doc)]
              ELSE c)

\* variant: the vector score replaces the BM25 score instead of adding to it
VectorCombineOverwrite(c, vector_scores, doc_id) ==
    DictGet(vector_scores, doc_id, Zero)

\* combined_scores[doc_id] = combined_scores.get(doc_id, 0) + vector_scores.get(doc_id, 0)
VectorCombine(c, vector_scores, doc_id) ==
    RatAdd(DictGet(c.scores, doc_id, Zero), DictGet(vector_scores, doc_id, Zero))

\* for doc in vector_results:
\*     if doc_id:
\*         combined_scores[doc_id] = ... + ...
\*         if doc_id not in all_docs: all_docs[doc_id] = doc.copy()
RECURSIVE AddVectorLoop(_, _, _, _)
AddVectorLoop(results, vector_scores, i, c) ==
    IF i > Len(results) THEN c
    ELSE LET doc    == results[i]
             doc_id == doc.doc_id
         IN AddVectorLoop(results, vector_scores, i + 1,
              IF doc_id # NoDocId
              THEN [CombinedSet(c, doc_id, VectorCombine(c, vector_scores, doc_id))
                        EXCEPT !.docs = IF doc_id \in DOMAIN @ THEN @
                                        ELSE DictSet(@, doc_id, doc)]
              ELSE c)

\* variant: an unstable order, a later equal score overtakes an earlier one
SortsBeforeOrEqual(scores, x, y) == ~RatLess(scores[x], scores[y])

\* key=lambda x: x[1], reverse=True: x goes before y when its score is larger
SortsBefore(scores, x, y) == RatLess(scores[y], scores[x])

\* Insert doc_id into a list already sorted: after every entry that does not
\* sort after it, so equal scores keep their arrival order (list.sort and
\* sorted are stable, with reverse=True as well).
RECURSIVE StableInsert(_, _, _)
StableInsert(sorted, scores, doc_id) ==
    IF sorted = << >> THEN <<doc_id>>
    ELSE IF SortsBefore(scores, doc_id, Head(sorted))
         THEN <<doc_id>> \o sorted
         ELSE <<Head(sorted)>> \o StableInsert(Tail(sorted), scores, doc_id)

\* sorted(combined_scores.items(), key=lambda x: x[1], reverse=True)
RECURSIVE SortedDocsLoop(_, _, _, _)
SortedDocsLoop(order, scores, i, sorted) ==
    IF i > Len(order) THEN sorted
    ELSE SortedDocsLoop(order, scores, i + 1, StableInsert(sorted, scores, order[i]))

SortedDocs(c) == SortedDocsLoop(c.order, c.scores, 1, << >>)

\* doc = all_docs[doc_id].copy(); doc["rrf_score"] = ...; doc["bm25_score"] = ...;
\* doc["vector_score"] = ...
FinalDoc(c, bm25_scores, vector_scores, doc_id) ==
    [doc_id       |-> c.docs[doc_id].doc_id,
     score        |-> c.docs[doc_id].score,
     rrf_score    |-> c.scores[doc_id],
     bm25_score   |-> DictGet(bm25_scores, doc_id, Zero),
     vector_score |-> DictGet(vector_scores, doc_id, Zero)]

\* The dict objects of a call: those of the two argument lists, and those a
\* copy() makes of them during the call.
ArgumentObject(list, i) == [list |-> list, index |-> i, copies |-> 0]

\* variant: the name is bound to the dict itself, no copy is made
SameObject(object) == object

\* doc.copy(): another dict object, with the same items
DictCopy(object) == [object EXCEPT !.copies = @ + 1]

\* the object all_docs[doc_id] is bound to after the two loops: a copy of
\* the last BM25 dict with this doc_id, else of the first vector dict with it
AllDocsObject(bm25, vector, doc_id) ==
    LET in_bm25 == {i \in 1..Len(bm25) : bm25[i].doc_id = doc_id}
        in_vector == {i \in 1..Len(vector) : vector[i].doc_id = doc_id}
    IN IF in_bm25 # {}
       THEN DictCopy(ArgumentObject("bm25_results",
                                    CHOOSE i \in in_bm25 : \A j \in in_bm25 : j <= i))
       ELSE DictCopy(ArgumentObject("vector_results",
                                    CHOOSE i \in in_vector : \A j \in in_vector : i <= j))

\* the objects the final loop assigns "rrf_score", "bm25_score" and
\* "vector_score" to: doc = all_docs[doc_id].copy()
WrittenObjects(bm25, vector) ==
    {DictCopy(AllDocsObject(bm25, vector, doc_id)) :
        doc_id \in ({bm25[i].doc_id : i \in 1..Len(bm25)}
                    \cup {vector[i].doc_id : i \in 1..Len(vector)}) \ {NoDocId}}

\* an argument list when the call has returned: the list object itself is
\* only read; a dict of it holds what the final loop assigned, if the final
\* loop assigned to that very object
ArgumentAfterCall(list, results, final, written) ==
    [i \in 1..Len(results) |->
        IF ArgumentObject(list, i) \in written
        THEN CHOOSE doc \in {final[j] : j \in 1..Len(final)} :
                 doc.doc_id = results[i].doc_id
        ELSE results[i]]

\* the value reciprocal_rank_fusion returns
ReciprocalRankFusion(bm25, vector, k) ==
    LET bm25_scores   == ScoreMap(bm25, k)
        vector_scores == ScoreMap(vector, k)
        c == AddVectorLoop(vector, vector_scores, 1,
                 AddBm25Loop(bm25, bm25_scores, 1, EmptyCombined))
        sorted_docs == SortedDocs(c)
    IN [i \in 1..Len(sorted_docs) |->
            FinalDoc(c, bm25_scores, vector_scores, sorted_docs[i])]

-----------------------------------------------------------------------------
(* app/main.py: the module-level retriever handles.                        *)

None == "None"

\* baseline_retriever = None ... langchain_hybrid_retriever = None
ModuleNames ==
    {"baseline_retriever", "improved_retriever", "vector_retriever",
     "hybrid_retriever", "query_rewriter",
     "langchain_vector_retriever", "langchain_hybrid_retriever"}

InitialGlobals == [n \in ModuleNames |-> None]

\* the names startup_event declares global
StartupGlobalNames ==
    {"baseline_retriever", "improved_retriever", "query_rewriter",
     "langchain_vector_retriever", "langchain_hybrid_retriever"}

Paths == {"BASELINE_INDEX", "IMPROVED_INDEX", "qdrant_path"}

Ctors ==
    {"BaselineRetriever", "ImprovedRetriever", "QueryRewriter",
     "LangChainVectorRetriever", "LangChainHybridRetriever",
     "VectorRetriever", "HybridRetriever"}

\* no call of match_activities or find_matching_activities is part of the run
MatchIdle ==
    /\ ma_query_activities = << >>
    /\ ma_data_activities = << >>
    /\ ma_outcome = [outcome |-> "none"]
    /\ ma_pc = "idle"

\* no call of generate_embeddings_batch is part of the run
EmbedIdle ==
    /\ eb_model = ""
    /\ eb_texts = << >>
    /\ eb_batch_size = 0
    /\ eb_failing_batches = {}
    /\ eb_failing_texts = {}
    /\ eb_embeddings = << >>
    /\ eb_pc = "idle"

\* no repeated expansion is part of the run
ClosureIdle ==
    /\ fx_term = << >>
    /\ fx_union = {}
    /\ fx_new = {}
    /\ fx_round = 0
    /\ fx_pc = "idle"

\* no call of QueryRewriter.rewrite_query is part of the run
RewriteIdle ==
    /\ user_query = << >>
    /\ llm_reply = [kind |-> "none"]
    /\ rewrite_outcome = [outcome |-> "none"]
    /\ rewrite_pc = "idle"

\* no call of ImprovedRetriever.search_with_filters is part of the run
FiltersIdle ==
    /\ swf_query = << >>
    /\ swf_city = << >>
    /\ swf_country = << >>
    /\ swf_activities = << >>
    /\ swf_limit = 0
    /\ swf_searches = << >>
    /\ swf_results = << >>
    /\ swf_pc = "idle"

\* no call of ActivityMatcher.expand_activity is part of the run
ExpandIdle ==
    /\ ea_activity = << >>
    /\ ea_expanded = {}
    /\ ea_pc = "idle"

\* no call of ActivityMatcher._fuzzy_match is part of the run
FuzzyIdle ==
    /\ fm_query_activity = << >>
    /\ fm_data_activity = << >>
    /\ fm_outcome = [outcome |-> "none"]
    /\ fm_pc = "idle"

\* no call of reciprocal_rank_fusion is part of the run
FusionIdle ==
    /\ rrf_k = DefaultRrfK
    /\ bm25_results = << >>
    /\ vector_results = << >>
    /\ final_results = << >>
    /\ fusion_pc = "idle"

\* no web application is part of the run
AppIdle ==
    /\ LANGCHAIN_AVAILABLE = FALSE
    /\ existing_paths = {}
    /\ failing_ctors = {}
    /\ module_globals = InitialGlobals
    /\ constructed = {}
    /\ request = [endpoint |-> "none"]
    /\ http_response = [endpoint |-> "none", status |-> 0]
    /\ app_pc = "idle"

-----------------------------------------------------------------------------
(* The fusion called on two result lists.                                  *)

\* no call of HybridRetriever.search is part of the run
HybridIdle ==
    /\ limit = 0
    /\ use_hybrid = FALSE
    /\ bm25_ranking = << >>
    /\ vector_ranking = << >>
    /\ embedding_ok = TRUE
    /\ qdrant_ok = TRUE
    /\ hybrid_response = [outcome |-> "none"]
    /\ hybrid_pc = "idle"
    /\ hybrid_events = << >>

FusionInit ==
    /\ HybridIdle
    /\ AppIdle
    /\ RewriteIdle
    /\ FiltersIdle
    /\ ExpandIdle
    /\ FuzzyIdle
    /\ MatchIdle
    /\ EmbedIdle
    /\ ClosureIdle
    /\ rrf_k \in RrfKs
    /\ bm25_results \in {Bm25List(ids) : ids \in IdLists}
    /\ vector_results \in {VectorList(ids) : ids \in IdLists}
    /\ final_results = << >>
    /\ fusion_pc = "call"

reciprocal_rank_fusion ==
    /\ fusion_pc = "call"
    /\ final_results' = ReciprocalRankFusion(bm25_results, vector_results, rrf_k)
    /\ \E written \in {WrittenObjects(bm25_results, vector_results)} :
          /\ bm25_results' = ArgumentAfterCall("bm25_results", bm25_results,
                                               final_results', written)
          /\ vector_results' = ArgumentAfterCall("vector_results", vector_results,
                                                 final_results', written)
    /\ fusion_pc' = "returned"
    /\ UNCHANGED rrf_k
    /\ UNCHANGED <<hybridVars, appVars, rewriteVars, filterVars, expandVars, fuzzyVars, matchVars, embedVars, closureVars>>

FusionNext == reciprocal_rank_fusion

SpecFusion == FusionInit /\ [][FusionNext]_vars

-----------------------------------------------------------------------------
(* HybridRetriever.search, one step per call of a collaborator.            *)

\* results[:n]
Take(results, n) == SubSeq(results, 1, IF n < Len(results) THEN n ELSE Len(results))

\* A backend ranks each stored document at most once.
Rankings ==
    {ids \in UNION {[1..n -> DocIds] : n \in 0..MaxLen} :
        \A i, j \in 1..Len(ids) : i # j => ids[i] # ids[j]}

\* ImprovedRetriever.search: "results" of searcher.search(final_query, limit=limit)
Bm25Search(ranking, n) == Bm25List(Take(ranking, n))

\* VectorRetriever.search -> QdrantStore.search: the formatted points of
\* query_points(limit=limit), and [] when the query raises
QdrantSearch(ranking, n, ok) == IF ok THEN VectorList(Take(ranking, n)) ELSE << >>

\* return {"method": "bm25_only", "results": bm25_results, "num_results": len(bm25_results)}
Bm25OnlyResponse(results) ==
    [outcome     |-> "returned",
     method      |-> "bm25_only",
     results     |-> results,
     num_results |-> Len(results)]

\* return {"method": "hybrid", "results": combined_results[:limit],
\*         "num_results": len(combined_results), "bm25_count": ..., "vector_count": ...}
HybridResponse(combined, bm25, vector, n) ==
    [outcome      |-> "returned",
     method       |-> "hybrid",
     results      |-> Take(combined, n),
     num_results  |-> Len(combined),
     bm25_count   |-> Len(bm25),
     vector_count |-> Len(vector)]

\* an exception leaves search
RaisedResponse == [outcome |-> "raised"]

\* a call made as a plain statement of search: the caller issues it and does
\* nothing else until it has returned or raised
Blocking(call, end) ==
    <<[call |-> call, event |-> "issued"], [call |-> call, event |-> end]>>

HybridInit ==
    /\ rrf_k \in RrfKs
    /\ bm25_results = << >>
    /\ vector_results = << >>
    /\ final_results = << >>
    /\ fusion_pc = "idle"
    /\ limit \in 1..MaxLimit
    /\ use_hybrid \in BOOLEAN
    /\ bm25_ranking \in Rankings
    /\ vector_ranking \in Rankings
    /\ embedding_ok \in BOOLEAN
    /\ qdrant_ok \in BOOLEAN
    /\ hybrid_response = [outcome |-> "none"]
    /\ hybrid_pc = "bm25"
    /\ hybrid_events = << >>
    /\ AppIdle
    /\ RewriteIdle
    /\ FiltersIdle
    /\ ExpandIdle
    /\ FuzzyIdle
    /\ MatchIdle
    /\ EmbedIdle
    /\ ClosureIdle

\* bm25_result = self.bm25_retriever.search(query, limit=limit), and the
\* return of the use_hybrid=False branch
HybridBm25Search ==
    /\ hybrid_pc = "bm25"
    /\ bm25_results' = Bm25Search(bm25_ranking, limit)
    /\ hybrid_events' = hybrid_events \o Blocking("bm25_retriever.search", "returned")
    /\ IF ~use_hybrid
       THEN /\ hybrid_response' = Bm25OnlyResponse(bm25_results')
            /\ hybrid_pc' = "done"
       ELSE /\ hybrid_response' = hybrid_response
            /\ hybrid_pc' = "vector"
    /\ UNCHANGED <<rrf_k, vector_results, final_results, fusion_pc>>
    /\ UNCHANGED <<limit, use_hybrid, bm25_ranking, vector_ranking, embedding_ok, qdrant_ok>>
    /\ UNCHANGED <<appVars, rewriteVars, filterVars, expandVars, fuzzyVars, matchVars, embedVars, closureVars>>

\* vector_result = self.vector_retriever.search(query, limit=limit):
\* generate_embedding re-raises a failed embedding call, QdrantStore.search
\* turns a failed query into []
HybridVectorSearch ==
    /\ hybrid_pc = "vector"
    /\ IF ~embedding_ok
       THEN /\ hybrid_response' = RaisedResponse
            /\ hybrid_pc' = "done"
            /\ vector_results' = vector_results
            /\ hybrid_events' =
                   hybrid_events \o Blocking("vector_retriever.search", "raised")
       ELSE /\ vector_results' = QdrantSearch(vector_ranking, limit, qdrant_ok)
            /\ hybrid_response' = hybrid_response
            /\ hybrid_pc' = "fuse"
            /\ hybrid_events' =
                   hybrid_events \o Blocking("vector_retriever.search", "returned")
    /\ UNCHANGED <<rrf_k, bm25_results, final_results, fusion_pc>>
    /\ UNCHANGED <<limit, use_hybrid, bm25_ranking, vector_ranking, embedding_ok, qdrant_ok>>
    /\ UNCHANGED <<appVars, rewriteVars, filterVars, expandVars, fuzzyVars, matchVars, embedVars, closureVars>>

\* combined_results = self.reciprocal_rank_fusion(...) and the final return
HybridFuse ==
    /\ hybrid_pc = "fuse"
    /\ final_results' = ReciprocalRankFusion(bm25_results, vector_results, rrf_k)
    /\ hybrid_response' = HybridResponse(final_results', bm25_results, vector_results, limit)
    /\ hybrid_pc' = "done"
    /\ hybrid_events' = hybrid_events \o Blocking("reciprocal_rank_fusion", "returned")
    /\ \E written \in {WrittenObjects(bm25_results, vector_results)} :
          /\ bm25_results' = ArgumentAfterCall("bm25_results", bm25_results,
                                               final_results', written)
          /\ vector_results' = ArgumentAfterCall("vector_results", vector_results,
                                                 final_results', written)
    /\ UNCHANGED <<rrf_k, fusion_pc>>
    /\ UNCHANGED <<limit, use_hybrid, bm25_ranking, vector_ranking, embedding_ok, qdrant_ok>>
    /\ UNCHANGED <<appVars, rewriteVars, filterVars, expandVars, fuzzyVars, matchVars, embedVars, closureVars>>

HybridNext == HybridBm25Search \/ HybridVectorSearch \/ HybridFuse

SpecHybrid == HybridInit /\ [][HybridNext]_vars

-----------------------------------------------------------------------------
(* app/main.py: startup_event.                                             *)

\* The frame of one run of startup_event: the module globals, the function's
\* local names, the constructors that returned, and whether an exception is
\* propagating.
StartupFrame(globals) ==
    [globals |-> globals, locals |-> EmptyDict, constructed |-> {}, raised |-> FALSE]

\* name = value inside startup_event: the name is the module's when the
\* function declares it global, else a local of the function
Assign(f, name, value) ==
    IF name \in StartupGlobalNames
    THEN [f EXCEPT !.globals[name] = value]
    ELSE [f EXCEPT !.locals = DictSet(@, name, value)]

\* name = Class(...): nothing is bound when the constructor raises; a
\* statement is skipped while an exception propagates
Construct(f, name, class, failing) ==
    IF f.raised THEN f
    ELSE IF class \in failing THEN [f EXCEPT !.raised = TRUE]
    ELSE [Assign(f, name, class) EXCEPT !.constructed = @ \cup {class}]

\* except Exception as e: print(...)
Catch(f) == [f EXCEPT !.raised = FALSE]

\* lines 68-72
StartupIndexes(f, paths, failing) ==
    LET a == IF "BASELINE_INDEX" \in paths
             THEN Construct(f, "baseline_retriever", "BaselineRetriever", failing)
             ELSE f
        b == IF ~a.raised /\ "IMPROVED_INDEX" \in paths
             THEN Construct(a, "improved_retriever", "ImprovedRetriever", failing)
             ELSE a
    IN Construct(b, "query_rewriter", "QueryRewriter", failing)

\* lines 75-86: the inner try around the LangChain retrievers
StartupLangChain(f, paths, failing, available) ==
    IF f.raised \/ ~available THEN f
    ELSE IF "qdrant_path" \notin paths THEN f
    ELSE Catch(Construct(
                 Construct(f, "langchain_vector_retriever", "LangChainVectorRetriever", failing),
                 "langchain_hybrid_retriever", "LangChainHybridRetriever", failing))

\* lines 88-93: the inner try around the vector and hybrid retrievers
StartupVector(f, failing) ==
    IF f.raised THEN f
    ELSE Catch(Construct(
                 Construct(f, "vector_retriever", "VectorRetriever", failing),
                 "hybrid_retriever", "HybridRetriever", failing))

\* the frame when startup_event returns; the outer except ends any exception
StartupResult(globals, paths, failing, available) ==
    Catch(StartupVector(
            StartupLangChain(
              StartupIndexes(StartupFrame(globals), paths, failing),
              paths, failing, available),
            failing))

-----------------------------------------------------------------------------
(* app/main.py: the /api/search and /api/health handlers.                  *)

SearchRequests ==
    [endpoint : {"search"}, use_improved : BOOLEAN, use_vector : BOOLEAN,
     use_hybrid : BOOLEAN, use_langchain : BOOLEAN]

\* raise HTTPException(status_code=503, detail=...)
Raise503 == [kind |-> "raise", class |-> "HTTPException", status_code |-> 503]

\* retriever.search(...) and the return of the dict: the search returns and
\* the handler returns `method`, or the search raises
Serve(method, fault) ==
    IF fault THEN [kind |-> "raise", class |-> "Exception", status_code |-> 0]
    ELSE [kind |-> "return", method |-> method]

\* lines 137-157
SearchLangChain(req, g, fault) ==
    IF req.use_hybrid /\ g["langchain_hybrid_retriever"] # None
    THEN Serve("langchain_hybrid", fault)
    ELSE IF g["langchain_vector_retriever"] # None
    THEN Serve("langchain_vector", fault)
    ELSE Raise503

\* lines 160-215
SearchNative(req, g, fault) ==
    IF req.use_hybrid
    THEN IF g["hybrid_retriever"] = None THEN Raise503 ELSE Serve("hybrid", fault)
    ELSE IF req.use_vector
    THEN IF g["vector_retriever"] = None THEN Raise503 ELSE Serve("vector", fault)
    ELSE IF req.use_improved
    THEN IF g["improved_retriever"] = None THEN Raise503 ELSE Serve("improved", fault)
    ELSE IF g["baseline_retriever"] = None THEN Raise503 ELSE Serve("baseline", fault)

\* the body of the try in search
SearchBody(req, g, available, fault) ==
    IF req.use_langchain /\ available
    THEN SearchLangChain(req, g, fault)
    ELSE SearchNative(req, g, fault)

\* HTTPException derives from Exception, as every exception a retriever raises
IsException(class) == class \in {"Exception", "HTTPException"}

\* except Exception as e: raise HTTPException(status_code=500, detail=str(e));
\* FastAPI answers a raised HTTPException with its status_code and a returned
\* dict with 200
SearchHandler(req, g, available, fault) ==
    LET body == SearchBody(req, g, available, fault) IN
    IF body.kind = "return"
    THEN [endpoint |-> "search", status |-> 200, method |-> body.method]
    ELSE IF IsException(body.class)
    THEN [endpoint |-> "search", status |-> 500, detail_from |-> body.class]
    ELSE [endpoint |-> "search", status |-> body.status_code, detail_from |-> body.class]

\* lines 296-305
HealthHandler(g, paths) ==
    [endpoint       |-> "health",
     status         |-> 200,
     baseline_index |-> "BASELINE_INDEX" \in paths,
     improved_index |-> "IMPROVED_INDEX" \in paths,
     vector_search  |-> g["vector_retriever"] # None,
     hybrid_search  |-> g["hybrid_retriever"] # None]

-----------------------------------------------------------------------------
(* The web application: start-up, then requests.                           *)

AppInit ==
    /\ rrf_k = DefaultRrfK
    /\ bm25_results = << >>
    /\ vector_results = << >>
    /\ final_results = << >>
    /\ fusion_pc = "idle"
    /\ HybridIdle
    /\ RewriteIdle
    /\ FiltersIdle
    /\ ExpandIdle
    /\ FuzzyIdle
    /\ MatchIdle
    /\ EmbedIdle
    /\ ClosureIdle
    /\ LANGCHAIN_AVAILABLE \in BOOLEAN
    /\ existing_paths \in SUBSET Paths
    /\ failing_ctors \in SUBSET Ctors
    /\ module_globals = InitialGlobals
    /\ constructed = {}
    /\ request = [endpoint |-> "none"]
    /\ http_response = [endpoint |-> "none", status |-> 0]
    /\ app_pc = "startup"

\* @app.on_event("startup"): runs once, before any request is served
startup_event ==
    /\ app_pc = "startup"
    /\ LET f == StartupResult(module_globals, existing_paths, failing_ctors,
                              LANGCHAIN_AVAILABLE)
       IN /\ module_globals' = f.globals
          /\ constructed' = f.constructed
    /\ app_pc' = "serving"
    /\ UNCHANGED <<LANGCHAIN_AVAILABLE, existing_paths, failing_ctors, request, http_response>>
    /\ UNCHANGED <<fusionVars, hybridVars, rewriteVars, filterVars, expandVars, fuzzyVars, matchVars, embedVars, closureVars>>

\* @app.post("/api/search")
search ==
    /\ app_pc = "serving"
    /\ \E req \in SearchRequests, fault \in BOOLEAN :
          /\ request' = req
          /\ http_response' = SearchHandler(req, module_globals, LANGCHAIN_AVAILABLE, fault)
    /\ UNCHANGED <<LANGCHAIN_AVAILABLE, existing_paths, failing_ctors, module_globals,
                   constructed, app_pc>>
    /\ UNCHANGED <<fusionVars, hybridVars, rewriteVars, filterVars, expandVars, fuzzyVars, matchVars, embedVars, closureVars>>

\* @app.get("/api/health")
health ==
    /\ app_pc = "serving"
    /\ request' = [endpoint |-> "health"]
    /\ http_response' = HealthHandler(module_globals, existing_paths)
    /\ UNCHANGED <<LANGCHAIN_AVAILABLE, existing_paths, failing_ctors, module_globals,
                   constructed, app_pc>>
    /\ UNCHANGED <<fusionVars, hybridVars, rewriteVars, filterVars, expandVars, fuzzyVars, matchVars, embedVars, closureVars>>

AppNext == startup_event \/ search \/ health

SpecApp == AppInit /\ [][AppNext]_vars

-----------------------------------------------------------------------------
(* QueryRewriter.rewrite_query (retrieval/query_rewriter.py).              *)
(* A Python str is the sequence of its characters.  A value produced by    *)
(* json.loads is a record [t, v]: t names the Python type, v is the        *)
(* payload (a character sequence, a number, a sequence of values, or for   *)
(* a dict the function from its keys to their values).  None is JNull.     *)

UpperCase ==
    <<"A","B","C","D","E","F","G","H","I","J","K","L","M",
      "N","O","P","Q","R","S","T","U","V","W","X","Y","Z">>

LowerCase ==
    <<"a","b","c","d","e","f","g","h","i","j","k","l","m",
      "n","o","p","q","r","s","t","u","v","w","x","y","z">>

Whitespace == {" ", "\t", "\n"}

DigitChars == <<"0","1","2","3","4","5","6","7","8","9">>

LowerChar(c) ==
    IF \E i \in 1..Len(UpperCase) : UpperCase[i] = c
    THEN LowerCase[CHOOSE i \in 1..Len(UpperCase) : UpperCase[i] = c]
    ELSE c

\* str.lower()
Lower(s) == [i \in 1..Len(s) |-> LowerChar(s[i])]

RECURSIVE LStrip(_)
LStrip(s) ==
    IF s # << >> /\ Head(s) \in Whitespace THEN LStrip(Tail(s)) ELSE s

RECURSIVE RStrip(_)
RStrip(s) ==
    IF s # << >> /\ s[Len(s)] \in Whitespace
    THEN RStrip(SubSeq(s, 1, Len(s) - 1))
    ELSE s

\* a strip that leaves the trailing whitespace
StripLeftOnly(s) == LStrip(s)

\* str.strip()
Strip(s) == RStrip(LStrip(s))

\* sub in s, for two strings
Contains(s, sub) ==
    \E i \in 1..(Len(s) - Len(sub) + 1) : SubSeq(s, i, i + Len(sub) - 1) = sub

JNull == [t |-> "null", v |-> 0]
JBool(b) == [t |-> "bool", v |-> b]
JNum(n) == [t |-> "num", v |-> n]
JStr(s) == [t |-> "str", v |-> s]
JList(l) == [t |-> "list", v |-> l]
JDict(d) == [t |-> "dict", v |-> d]

\* bool(x)
Truthy(x) ==
    CASE x.t = "null" -> FALSE
      [] x.t = "bool" -> x.v
      [] x.t = "num"  -> x.v # 0
      [] x.t = "str"  -> x.v # << >>
      [] x.t = "list" -> x.v # << >>
      [] x.t = "dict" -> DOMAIN x.v # {}

\* str(x), for the strings, one-digit numbers and booleans of the replies
PyStr(x) ==
    CASE x.t = "str"  -> x.v
      [] x.t = "num"  -> <<DigitChars[x.v + 1]>>
      [] x.t = "bool" -> IF x.v THEN <<"T","r","u","e">>
                                ELSE <<"F","a","l","s","e">>

\* the outcome of evaluating an expression: a value, or a raised exception
Returns(value) == [raised |-> FALSE, class |-> "", value |-> value]
Raises(class) == [raised |-> TRUE, class |-> class, value |-> JNull]

(* The text of a reply is a sequence of pieces: a code fence (three    *)
(* backquotes), the word json or JSON, whitespace, prose, the text of one JSON *)
(* value (v is the value json.loads gives for it) or text that is not      *)
(* JSON.                                                                    *)
Fence == [tok |-> "fence", v |-> JNull]
Word(w) == [tok |-> w, v |-> JNull]
Ws == [tok |-> "ws", v |-> JNull]
Prose == [tok |-> "prose", v |-> JNull]
JsonText(value) == [tok |-> "value", v |-> value]
NotJson == [tok |-> "garbage", v |-> JNull]

RECURSIVE LStripPieces(_)
LStripPieces(c) ==
    IF c # << >> /\ Head(c).tok = "ws" THEN LStripPieces(Tail(c)) ELSE c

RECURSIVE RStripPieces(_)
RStripPieces(c) ==
    IF c # << >> /\ c[Len(c)].tok = "ws"
    THEN RStripPieces(SubSeq(c, 1, Len(c) - 1))
    ELSE c

\* content.strip()
StripContent(c) == RStripPieces(LStripPieces(c))

\* content.startswith(w)
StartsWith(c, w) == c # << >> /\ Head(c).tok = w

RECURSIVE UpToFence(_)
UpToFence(c) ==
    IF c = << >> \/ Head(c).tok = "fence" THEN << >>
    ELSE <<Head(c)>> \o UpToFence(Tail(c))

\* content.split(fence)[1], for a content that starts with a fence
SplitFence1(c) == UpToFence(Tail(c))

\* the clean-up of the response: the fenced block without its json tag
CleanUp(c) ==
    IF StartsWith(c, "fence")
    THEN LET inner == SplitFence1(c)
             untagged == IF StartsWith(inner, "json") THEN Tail(inner) ELSE inner
         IN StripContent(untagged)
    ELSE c

\* json.loads(content): whitespace around the one value is allowed
JsonLoads(c) ==
    LET text == StripContent(c)
    IN IF Len(text) = 1 /\ text[1].tok = "value"
       THEN Returns(text[1].v)
       ELSE Raises("JSONDecodeError")

ActivitiesText == <<"a","c","t","i","v","i","t","i","e","s">>
NullText == <<"n","u","l","l">>

\* [str(a).lower().strip() for a in activities if a]
RECURSIVE NormalizedActivities(_)
NormalizedActivities(activities) ==
    IF activities = << >> THEN << >>
    ELSE LET a == Head(activities)
             rest == NormalizedActivities(Tail(activities))
         IN IF Truthy(a) THEN <<JStr(Strip(Lower(PyStr(a))))>> \o rest
            ELSE rest

\* "activities" in result
HasActivities(result) ==
    CASE result.t = "dict" -> Returns("activities" \in DOMAIN result.v)
      [] result.t = "list" ->
            Returns(\E i \in 1..Len(result.v) : result.v[i] = JStr(ActivitiesText))
      [] result.t = "str"  -> Returns(Contains(result.v, ActivitiesText))
      [] OTHER -> Raises("TypeError")

\* the statement that normalizes result["activities"]; only a dict can be
\* indexed, or assigned to, by the key "activities"
NormalizeActivities(result) ==
    LET has == HasActivities(result)
    IN IF has.raised THEN has
       ELSE IF result.t # "dict" THEN Raises("TypeError")
       ELSE IF has.value /\ result.v["activities"].t = "list"
       THEN Returns(JDict(DictSet(result.v, "activities",
                       JList(NormalizedActivities(result.v["activities"].v)))))
       ELSE Returns(JDict(DictSet(result.v, "activities", JList(<< >>))))

\* if result.get(key) and result[key].lower() == "null": result[key] = None
\* (result is a dict here; only a str has .lower)
NormalizeNull(result, key) ==
    LET x == DictGet(result.v, key, JNull)
    IN IF ~Truthy(x) THEN Returns(result)
       ELSE IF x.t # "str" THEN Raises("AttributeError")
       ELSE IF Lower(x.v) = NullText
       THEN Returns(JDict(DictSet(result.v, key, JNull)))
       ELSE Returns(result)

\* response.choices[0].message.content.strip()
ResponseContent(reply) ==
    CASE reply.kind = "error"      -> Raises("APIError")
      [] reply.kind = "no_choices" -> Raises("IndexError")
      [] reply.kind = "no_content" -> Raises("AttributeError")
      [] reply.kind = "content"    -> Returns(StripContent(reply.content))

\* the body of the try statement
TryBody(query, reply) ==
    LET content == ResponseContent(reply)
    IN IF content.raised THEN content
       ELSE
       LET parsed == JsonLoads(CleanUp(content.value))
       IN IF parsed.raised THEN parsed
          ELSE
          LET acts == NormalizeActivities(parsed.value)
          IN IF acts.raised THEN acts
             ELSE
             LET city == NormalizeNull(acts.value, "city")
             IN IF city.raised THEN city
                ELSE
                LET country == NormalizeNull(city.value, "country")
                IN IF country.raised THEN country
                   ELSE Returns(JDict(DictSet(country.value.v,
                                              "original_query", JStr(query))))

\* the dict of the except branch
Fallback(query) ==
    JDict([city |-> JNull, country |-> JNull, activities |-> JList(<< >>),
           original_query |-> JStr(query)])

\* rewrite_query(user_query): except Exception catches whatever the body raises
RewriteQuery(query, reply) ==
    LET body == TryBody(query, reply)
    IN IF body.raised
       THEN [outcome |-> "returned", value |-> Fallback(query), caught |-> body.class]
       ELSE [outcome |-> "returned", value |-> body.value, caught |-> ""]

(* The replies of the language model.                                      *)

Absent == [t |-> "absent", v |-> 0]

Paris == <<"P","a","r","i","s">>
France == <<"F","r","a","n","c","e">>

CityValues ==
    {Absent, JNull, JStr(Paris), JStr(NullText), JStr(<<"N","U","L","L">>),
     JStr(<<" ","n","u","l","l">>), JStr(<< >>), JNum(0), JNum(7),
     JList(<< >>), JBool(TRUE)}

CountryValues ==
    {Absent, JNull, JStr(France), JStr(<<"N","u","l","l">>), JNum(7)}

ActivitiesValues ==
    {Absent, JNull, JStr(<<"s","p","a">>), JList(<< >>),
     JList(<<JStr(<<" ","W","i","n","e"," "," ","T","a","s","t","i","n","g","\n">>)>>),
     JList(<<JStr(<<"h","i","k","i","n","g">>), JNull, JStr(<< >>), JNum(0)>>),
     JList(<<JNum(7), JBool(TRUE)>>),
     JList(<<JStr(<<" ">>)>>)}

OriginalQueryValues == {Absent, JStr(<<"q">>)}

\* the JSON object with the keys that are not Absent
JsonObject(city, country, activities, original_query) ==
    LET all == [city |-> city, country |-> country, activities |-> activities,
                original_query |-> original_query]
        keys == {x \in DOMAIN all : all[x].t # "absent"}
    IN JDict([x \in keys |-> all[x]])

JsonObjects ==
    {JsonObject(c, k, a, o) : c \in CityValues, k \in CountryValues,
                              a \in ActivitiesValues, o \in OriginalQueryValues}

JsonNonObjects ==
    {JNull, JBool(TRUE), JNum(7), JStr(Paris), JStr(ActivitiesText),
     JList(<< >>), JList(<<JStr(ActivitiesText)>>)}

\* the texts a reply can carry
Bodies == {JsonText(x) : x \in JsonObjects \cup JsonNonObjects} \cup {NotJson}

\* the ways the model lays the answer out
Layouts(body) ==
    { <<body>>,
      <<Ws, body, Ws>>,
      <<Fence, Word("json"), Ws, body, Ws, Fence>>,
      <<Fence, Ws, body, Ws, Fence>>,
      <<Fence, Word("JSON"), Ws, body, Ws, Fence>>,
      <<Fence, Word("json"), Ws, body, Ws, Fence, Ws, Prose>>,
      <<Prose, Ws, Fence, Word("json"), Ws, body, Ws, Fence>>,
      <<Fence, Word("json"), Ws, body>> }

LlmReplies ==
    {[kind |-> k, content |-> << >>] : k \in {"error", "no_choices", "no_content"}}
    \cup {[kind |-> "content", content |-> << >>]}
    \cup {[kind |-> "content", content |-> c] : c \in UNION {Layouts(b) : b \in Bodies}}

UserQueries == {<<"s","p","a">>, <<"S","k","i"," ">>}

RewriteInit ==
    /\ rrf_k = DefaultRrfK
    /\ bm25_results = << >>
    /\ vector_results = << >>
    /\ final_results = << >>
    /\ fusion_pc = "idle"
    /\ HybridIdle
    /\ AppIdle
    /\ FiltersIdle
    /\ ExpandIdle
    /\ FuzzyIdle
    /\ MatchIdle
    /\ EmbedIdle
    /\ ClosureIdle
    /\ user_query \in UserQueries
    /\ llm_reply \in LlmReplies
    /\ rewrite_outcome = [outcome |-> "none"]
    /\ rewrite_pc = "call"

rewrite_query ==
    /\ rewrite_pc = "call"
    /\ rewrite_outcome' = RewriteQuery(user_query, llm_reply)
    /\ rewrite_pc' = "returned"
    /\ UNCHANGED <<user_query, llm_reply>>
    /\ UNCHANGED <<fusionVars, hybridVars, appVars, filterVars, expandVars, fuzzyVars, matchVars, embedVars, closureVars>>

RewriteNext == rewrite_query

SpecRewrite == RewriteInit /\ [][RewriteNext]_vars

-----------------------------------------------------------------------------
(* ActivityMatcher (retrieval/activity_matcher.py).  Activities are        *)
(* strings, so sequences of characters; a Python set of strings is a set.  *)

\* ActivityMatcher.SYNONYMS: the dict, as its items in source order
SYNONYMS ==
    <<
      [key |-> <<"t","o","u","r">>,
       values |-> <<
          <<"t","o","u","r","s">>,
          <<"t","o","u","r">>,
          <<"g","u","i","d","e","d"," ","t","o","u","r">>,
          <<"g","u","i","d","e","d"," ","t","o","u","r","s">>
       >>],
      [key |-> <<"t","o","u","r","s">>,
       values |-> <<
          <<"t","o","u","r">>,
          <<"t","o","u","r","s">>,
          <<"g","u","i","d","e","d"," ","t","o","u","r">>,
          <<"g","u","i","d","e","d"," ","t","o","u","r","s">>
       >>],
      [key |-> <<"c","i","t","y"," ","t","o","u","r">>,
       values |-> <<
          <<"c","i","t","y"," ","t","o","u","r","s">>,
          <<"c","i","t","y"," ","t","o","u","r">>,
          <<"u","r","b","a","n"," ","t","o","u","r">>,
          <<"u","r","b","a","n"," ","t","o","u","r","s">>
       >>],
      [key |-> <<"c","i","t","y"," ","t","o","u","r","s">>,
       values |-> <<
          <<"c","i","t","y"," ","t","o","u","r">>,
          <<"c","i","t","y"," ","t","o","u","r","s">>,
          <<"u","r","b","a","n"," ","t","o","u","r">>,
          <<"u","r","b","a","n"," ","t","o","u","r","s">>
       >>],
      [key |-> <<"p","h","o","t","o","g","r","a","p","h","y"," ","t","o","u","r">>,
       values |-> <<
          <<"p","h","o","t","o","g","r","a","p","h","y"," ","t","o","u","r","s">>,
          <<"p","h","o","t","o"," ","t","o","u","r">>,
          <<"p","h","o","t","o"," ","t","o","u","r","s">>,
          <<"p","h","o","t","o","g","r","a","p","h","y"," ","t","o","u","r">>
       >>],
      [key |-> <<"p","h","o","t","o","g","r","a","p","h","y"," ","t","o","u","r","s">>,
       values |-> <<
          <<"p","h","o","t","o","g","r","a","p","h","y"," ","t","o","u","r">>,
          <<"p","h","o","t","o","g","r","a","p","h","y"," ","t","o","u","r","s">>,
          <<"p","h","o","t","o"," ","t","o","u","r">>,
          <<"p","h","o","t","o"," ","t","o","u","r","s">>
       >>],
      [key |-> <<"h","i","s","t","o","r","i","c","a","l"," ","t","o","u","r">>,
       values |-> <<
          <<"h","i","s","t","o","r","i","c","a","l"," ","t","o","u","r","s">>,
          <<"h","i","s","t","o","r","y"," ","t","o","u","r">>,
          <<"h","i","s","t","o","r","y"," ","t","o","u","r","s">>,
          <<"h","i","s","t","o","r","i","c","a","l"," ","t","o","u","r">>
       >>],
      [key |-> <<"h","i","s","t","o","r","i","c","a","l"," ","t","o","u","r","s">>,
       values |-> <<
          <<"h","i","s","t","o","r","i","c","a","l"," ","t","o","u","r">>,
          <<"h","i","s","t","o","r","i","c","a","l"," ","t","o","u","r","s">>,
          <<"h","i","s","t","o","r","y"," ","t","o","u","r">>,
          <<"h","i","s","t","o","r","y"," ","t","o","u","r","s">>
       >>],
      [key |-> <<"c","u","l","i","n","a","r","y"," ","t","o","u","r">>,
       values |-> <<
          <<"c","u","l","i","n","a","r","y"," ","t","o","u","r","s">>,
          <<"f","o","o","d"," ","t","o","u","r">>,
          <<"f","o","o","d"," ","t","o","u","r","s">>,
          <<"c","u","l","i","n","a","r","y"," ","t","o","u","r">>
       >>],
      [key |-> <<"c","u","l","i","n","a","r","y"," ","t","o","u","r","s">>,
       values |-> <<
          <<"c","u","l","i","n","a","r","y"," ","t","o","u","r">>,
          <<"c","u","l","i","n","a","r","y"," ","t","o","u","r","s">>,
          <<"f","o","o","d"," ","t","o","u","r">>,
          <<"f","o","o","d"," ","t","o","u","r","s">>
       >>],
      [key |-> <<"w","i","n","e"," ","t","a","s","t","i","n","g">>,
       values |-> <<
          <<"w","i","n","e"," ","t","a","s","t","i","n","g","s">>,
          <<"w","i","n","e"," ","t","a","s","t","i","n","g">>,
          <<"t","a","s","t","i","n","g">>,
          <<"t","a","s","t","i","n","g","s">>
       >>],
      [key |-> <<"s","n","o","r","k","e","l","i","n","g">>,
       values |-> <<
          <<"s","n","o","r","k","e","l","i","n","g">>,
          <<"s","n","o","r","k","e","l">>,
          <<"s","n","o","r","k","e","l","l","i","n","g">>,
          <<"s","n","o","r","k","e","l"," ","d","i","v","i","n","g">>
       >>],
      [key |-> <<"d","i","v","i","n","g">>,
       values |-> <<
          <<"d","i","v","i","n","g">>,
          <<"s","c","u","b","a"," ","d","i","v","i","n","g">>,
          <<"d","i","v","e">>
       >>],
      [key |-> <<"h","i","k","i","n","g">>,
       values |-> <<
          <<"h","i","k","i","n","g">>,
          <<"h","i","k","e">>,
          <<"t","r","e","k","k","i","n","g">>,
          <<"t","r","e","k">>
       >>],
      [key |-> <<"b","e","a","c","h">>,
       values |-> <<
          <<"b","e","a","c","h","e","s">>,
          <<"b","e","a","c","h">>,
          <<"b","e","a","c","h"," ","a","c","t","i","v","i","t","i","e","s">>
       >>],
      [key |-> <<"b","e","a","c","h","e","s">>,
       values |-> <<
          <<"b","e","a","c","h">>,
          <<"b","e","a","c","h","e","s">>,
          <<"b","e","a","c","h"," ","a","c","t","i","v","i","t","i","e","s">>
       >>],
      [key |-> <<"m","u","s","e","u","m">>,
       values |-> <<
          <<"m","u","s","e","u","m","s">>,
          <<"m","u","s","e","u","m">>,
          <<"g","a","l","l","e","r","y">>,
          <<"g","a","l","l","e","r","i","e","s">>
       >>],
      [key |-> <<"m","u","s","e","u","m","s">>,
       values |-> <<
          <<"m","u","s","e","u","m">>,
          <<"m","u","s","e","u","m","s">>,
          <<"g","a","l","l","e","r","y">>,
          <<"g","a","l","l","e","r","i","e","s">>
       >>]
    >>

\* ActivityMatcher.CATEGORIES: the dict, as its items in source order
CATEGORIES ==
    <<
      [key |-> <<"o","u","t","d","o","o","r">>,
       values |-> <<
          <<"h","i","k","i","n","g">>,
          <<"t","r","e","k","k","i","n","g">>,
          <<"c","a","m","p","i","n","g">>,
          <<"r","o","c","k"," ","c","l","i","m","b","i","n","g">>,
          <<"c","y","c","l","i","n","g">>,
          <<"k","a","y","a","k","i","n","g">>,
          <<"r","a","f","t","i","n","g">>,
          <<"p","a","r","a","g","l","i","d","i","n","g">>,
          <<"s","k","y","d","i","v","i","n","g">>,
          <<"b","u","n","g","e","e"," ","j","u","m","p","i","n","g">>,
          <<"z","i","p","-","l","i","n","i","n","g">>,
          <<"s","n","o","r","k","e","l","i","n","g">>,
          <<"d","i","v","i","n","g">>,
          <<"s","u","r","f","i","n","g">>,
          <<"b","e","a","c","h">>,
          <<"b","e","a","c","h","e","s">>,
          <<"f","i","s","h","i","n","g">>,
          <<"b","i","r","d"," ","w","a","t","c","h","i","n","g">>,
          <<"w","i","l","d","l","i","f","e"," ","v","i","e","w","i","n","g">>,
          <<"g","l","a","c","i","e","r"," ","t","o","u","r","s">>,
          <<"v","o","l","c","a","n","o"," ","t","o","u","r","s">>,
          <<"c","a","v","e"," ","e","x","p","l","o","r","a","t","i","o","n">>,
          <<"a","d","v","e","n","t","u","r","e"," ","t","o","u","r","s">>
       >>],
      [key |-> <<"o","u","t","d","o","o","r"," ","a","c","t","i","v","i","t","i","e","s">>,
       values |-> <<
          <<"h","i","k","i","n","g">>,
          <<"t","r","e","k","k","i","n","g">>,
          <<"c","a","m","p","i","n","g">>,
          <<"r","o","c","k"," ","c","l","i","m","b","i","n","g">>,
          <<"c","y","c","l","i","n","g">>,
          <<"k","a","y","a","k","i","n","g">>,
          <<"r","a","f","t","i","n","g">>,
          <<"p","a","r","a","g","l","i","d","i","n","g">>,
          <<"s","n","o","r","k","e","l","i","n","g">>,
          <<"d","i","v","i","n","g">>,
          <<"s","u","r","f","i","n","g">>,
          <<"b","e","a","c","h">>,
          <<"b","e","a","c","h","e","s">>,
          <<"f","i","s","h","i","n","g">>,
          <<"a","d","v","e","n","t","u","r","e"," ","t","o","u","r","s">>
       >>],
      [key |-> <<"a","d","v","e","n","t","u","r","e">>,
       values |-> <<
          <<"h","i","k","i","n","g">>,
          <<"t","r","e","k","k","i","n","g">>,
          <<"r","o","c","k"," ","c","l","i","m","b","i","n","g">>,
          <<"k","a","y","a","k","i","n","g">>,
          <<"r","a","f","t","i","n","g">>,
          <<"p","a","r","a","g","l","i","d","i","n","g">>,
          <<"s","k","y","d","i","v","i","n","g">>,
          <<"b","u","n","g","e","e"," ","j","u","m","p","i","n","g">>,
          <<"z","i","p","-","l","i","n","i","n","g">>,
          <<"s","n","o","r","k","e","l","i","n","g">>,
          <<"d","i","v","i","n","g">>,
          <<"s","u","r","f","i","n","g">>,
          <<"g","l","a","c","i","e","r"," ","t","o","u","r","s">>,
          <<"v","o","l","c","a","n","o"," ","t","o","u","r","s">>,
          <<"c","a","v","e"," ","e","x","p","l","o","r","a","t","i","o","n">>,
          <<"a","d","v","e","n","t","u","r","e"," ","t","o","u","r","s">>
       >>],
      [key |-> <<"a","d","v","e","n","t","u","r","e"," ","a","c","t","i","v","i","t","i","e","s">>,
       values |-> <<
          <<"h","i","k","i","n","g">>,
          <<"t","r","e","k","k","i","n","g">>,
          <<"r","o","c","k"," ","c","l","i","m","b","i","n","g">>,
          <<"k","a","y","a","k","i","n","g">>,
          <<"r","a","f","t","i","n","g">>,
          <<"p","a","r","a","g","l","i","d","i","n","g">>,
          <<"s","k","y","d","i","v","i","n","g">>,
          <<"b","u","n","g","e","e"," ","j","u","m","p","i","n","g">>,
          <<"s","n","o","r","k","e","l","i","n","g">>,
          <<"d","i","v","i","n","g">>,
          <<"s","u","r","f","i","n","g">>,
          <<"a","d","v","e","n","t","u","r","e"," ","t","o","u","r","s">>
       >>],
      [key |-> <<"w","e","l","l","n","e","s","s">>,
       values |-> <<
          <<"y","o","g","a">>,
          <<"s","p","a"," ","t","r","e","a","t","m","e","n","t","s">>,
          <<"m","e","d","i","t","a","t","i","o","n">>,
          <<"w","e","l","l","n","e","s","s"," ","r","e","t","r","e","a","t","s">>,
          <<"h","o","t"," ","s","p","r","i","n","g","s">>,
          <<"m","a","s","s","a","g","e">>,
          <<"r","e","l","a","x","a","t","i","o","n">>,
          <<"m","i","n","d","f","u","l","n","e","s","s">>
       >>],
      [key |-> <<"w","e","l","l","n","e","s","s"," ","r","e","t","r","e","a","t","s">>,
       values |-> <<
          <<"y","o","g","a">>,
          <<"s","p","a"," ","t","r","e","a","t","m","e","n","t","s">>,
          <<"m","e","d","i","t","a","t","i","o","n">>,
          <<"w","e","l","l","n","e","s","s"," ","r","e","t","r","e","a","t","s">>,
          <<"h","o","t"," ","s","p","r","i","n","g","s">>,
          <<"m","a","s","s","a","g","e">>,
          <<"r","e","l","a","x","a","t","i","o","n">>
       >>],
      [key |-> <<"c","u","l","t","u","r","a","l">>,
       values |-> <<
          <<"m","u","s","e","u","m","s">>,
          <<"a","r","t"," ","g","a","l","l","e","r","i","e","s">>,
          <<"t","e","m","p","l","e"," ","v","i","s","i","t","s">>,
          <<"h","i","s","t","o","r","i","c","a","l"," ","t","o","u","r","s">>,
          <<"c","u","l","t","u","r","a","l"," ","e","x","p","e","r","i","e","n","c","e","s">>,
          <<"t","r","a","d","i","t","i","o","n","a","l"," ","c","e","r","e","m","o","n","i","e","s">>,
          <<"t","e","a"," ","c","e","r","e","m","o","n","i","e","s">>,
          <<"c","u","l","t","u","r","a","l"," ","h","e","r","i","t","a","g","e">>,
          <<"l","o","c","a","l"," ","t","r","a","d","i","t","i","o","n","s">>
       >>],
      [key |-> <<"c","u","l","t","u","r","a","l"," ","a","c","t","i","v","i","t","i","e","s">>,
       values |-> <<
          <<"m","u","s","e","u","m","s">>,
          <<"a","r","t"," ","g","a","l","l","e","r","i","e","s">>,
          <<"t","e","m","p","l","e"," ","v","i","s","i","t","s">>,
          <<"h","i","s","t","o","r","i","c","a","l"," ","t","o","u","r","s">>,
          <<"c","u","l","t","u","r","a","l"," ","e","x","p","e","r","i","e","n","c","e","s">>,
          <<"t","r","a","d","i","t","i","o","n","a","l"," ","c","e","r","e","m","o","n","i","e","s">>,
          <<"t","e","a"," ","c","e","r","e","m","o","n","i","e","s">>
       >>],
      [key |-> <<"e","n","t","e","r","t","a","i","n","m","e","n","t">>,
       values |-> <<
          <<"n","i","g","h","t","l","i","f","e">>,
          <<"b","a","r","s">>,
          <<"c","l","u","b","s">>,
          <<"c","o","n","c","e","r","t","s">>,
          <<"f","e","s","t","i","v","a","l","s">>,
          <<"c","a","s","i","n","o","s">>,
          <<"t","h","e","a","t","e","r">>,
          <<"o","p","e","r","a">>,
          <<"s","p","o","r","t","s"," ","e","v","e","n","t","s">>,
          <<"j","a","z","z"," ","c","l","u","b","s">>,
          <<"m","u","s","i","c"," ","v","e","n","u","e","s">>
       >>],
      [key |-> <<"n","i","g","h","t","l","i","f","e">>,
       values |-> <<
          <<"b","a","r","s">>,
          <<"c","l","u","b","s">>,
          <<"n","i","g","h","t","l","i","f","e">>,
          <<"j","a","z","z"," ","c","l","u","b","s">>,
          <<"m","u","s","i","c"," ","v","e","n","u","e","s">>,
          <<"c","a","s","i","n","o","s">>
       >>],
      [key |-> <<"c","u","l","i","n","a","r","y">>,
       values |-> <<
          <<"c","u","l","i","n","a","r","y"," ","t","o","u","r","s">>,
          <<"f","o","o","d"," ","t","o","u","r","s">>,
          <<"c","o","o","k","i","n","g"," ","c","l","a","s","s","e","s">>,
          <<"w","i","n","e"," ","t","a","s","t","i","n","g">>,
          <<"r","e","s","t","a","u","r","a","n","t","s">>,
          <<"f","i","n","e"," ","d","i","n","i","n","g">>,
          <<"s","t","r","e","e","t"," ","f","o","o","d"," ","t","o","u","r","s">>,
          <<"s","e","a","f","o","o","d"," ","d","i","n","i","n","g">>,
          <<"s","u","s","h","i"," ","d","i","n","i","n","g">>,
          <<"t","a","p","a","s"," ","t","o","u","r","s">>
       >>],
      [key |-> <<"f","o","o","d">>,
       values |-> <<
          <<"c","u","l","i","n","a","r","y"," ","t","o","u","r","s">>,
          <<"f","o","o","d"," ","t","o","u","r","s">>,
          <<"c","o","o","k","i","n","g"," ","c","l","a","s","s","e","s">>,
          <<"r","e","s","t","a","u","r","a","n","t","s">>,
          <<"f","i","n","e"," ","d","i","n","i","n","g">>,
          <<"s","t","r","e","e","t"," ","f","o","o","d"," ","t","o","u","r","s">>,
          <<"s","e","a","f","o","o","d"," ","d","i","n","i","n","g">>,
          <<"s","u","s","h","i"," ","d","i","n","i","n","g">>
       >>],
      [key |-> <<"w","a","t","e","r"," ","s","p","o","r","t","s">>,
       values |-> <<
          <<"s","n","o","r","k","e","l","i","n","g">>,
          <<"d","i","v","i","n","g">>,
          <<"s","u","r","f","i","n","g">>,
          <<"k","a","y","a","k","i","n","g">>,
          <<"r","a","f","t","i","n","g">>,
          <<"s","w","i","m","m","i","n","g">>,
          <<"b","e","a","c","h">>,
          <<"b","e","a","c","h","e","s">>,
          <<"w","a","t","e","r"," ","s","p","o","r","t","s">>
       >>],
      [key |-> <<"w","a","t","e","r"," ","a","c","t","i","v","i","t","i","e","s">>,
       values |-> <<
          <<"s","n","o","r","k","e","l","i","n","g">>,
          <<"d","i","v","i","n","g">>,
          <<"s","u","r","f","i","n","g">>,
          <<"k","a","y","a","k","i","n","g">>,
          <<"s","w","i","m","m","i","n","g">>,
          <<"b","e","a","c","h">>,
          <<"b","e","a","c","h","e","s">>,
          <<"w","a","t","e","r"," ","s","p","o","r","t","s">>
       >>],
      [key |-> <<"s","p","o","r","t","s">>,
       values |-> <<
          <<"c","y","c","l","i","n","g">>,
          <<"h","i","k","i","n","g">>,
          <<"s","u","r","f","i","n","g">>,
          <<"t","e","n","n","i","s">>,
          <<"g","o","l","f">>,
          <<"b","e","a","c","h"," ","v","o","l","l","e","y","b","a","l","l">>,
          <<"s","k","i","i","n","g">>,
          <<"s","n","o","w","b","o","a","r","d","i","n","g">>,
          <<"i","c","e"," ","s","k","a","t","i","n","g">>,
          <<"s","p","o","r","t","s"," ","e","v","e","n","t","s">>
       >>],
      [key |-> <<"p","h","o","t","o","g","r","a","p","h","y">>,
       values |-> <<
          <<"p","h","o","t","o","g","r","a","p","h","y"," ","t","o","u","r","s">>,
          <<"p","h","o","t","o"," ","t","o","u","r","s">>,
          <<"p","h","o","t","o","g","r","a","p","h","y">>,
          <<"s","t","a","r","g","a","z","i","n","g">>
       >>],
      [key |-> <<"n","a","t","u","r","e">>,
       values |-> <<
          <<"h","i","k","i","n","g">>,
          <<"b","i","r","d"," ","w","a","t","c","h","i","n","g">>,
          <<"w","i","l","d","l","i","f","e"," ","v","i","e","w","i","n","g">>,
          <<"s","t","a","r","g","a","z","i","n","g">>,
          <<"g","l","a","c","i","e","r"," ","t","o","u","r","s">>,
          <<"v","o","l","c","a","n","o"," ","t","o","u","r","s">>,
          <<"c","a","v","e"," ","e","x","p","l","o","r","a","t","i","o","n">>,
          <<"h","o","t"," ","s","p","r","i","n","g","s">>,
          <<"N","o","r","t","h","e","r","n"," ","L","i","g","h","t","s"," ","v","i","e","w","i","n","g">>
       >>],
      [key |-> <<"i","n","d","o","o","r">>,
       values |-> <<
          <<"m","u","s","e","u","m","s">>,
          <<"a","r","t"," ","g","a","l","l","e","r","i","e","s">>,
          <<"s","p","a"," ","t","r","e","a","t","m","e","n","t","s">>,
          <<"c","o","o","k","i","n","g"," ","c","l","a","s","s","e","s">>,
          <<"w","i","n","e"," ","t","a","s","t","i","n","g">>,
          <<"c","a","s","i","n","o","s">>,
          <<"t","h","e","a","t","e","r">>,
          <<"o","p","e","r","a">>,
          <<"s","h","o","p","p","i","n","g">>
       >>]
    >>
Range(list) == {list[i] : i \in 1..Len(list)}

\* key in table
HasKey(table, key) == \E i \in 1..Len(table) : table[i].key = key

\* table[key]
Lookup(table, key) == table[CHOOSE i \in 1..Len(table) : table[i].key = key].values

\* s.endswith(suffix)
EndsWith(s, suffix) ==
    /\ Len(suffix) <= Len(s)
    /\ SubSeq(s, Len(s) - Len(suffix) + 1, Len(s)) = suffix

\* s[:-n]
DropLast(s, n) == SubSeq(s, 1, Len(s) - n)

\* re.sub(r'\s+', ' ', s)
RECURSIVE CollapseWhitespace(_)
CollapseWhitespace(s) ==
    IF s = << >> THEN << >>
    ELSE IF Head(s) \in Whitespace
         THEN <<" ">> \o CollapseWhitespace(LStrip(Tail(s)))
         ELSE <<Head(s)>> \o CollapseWhitespace(Tail(s))

\* a _normalize that leaves the letter case alone
NormalizeKeepCase(activity) == CollapseWhitespace(Strip(activity))

\* ActivityMatcher._normalize
Normalize(activity) == CollapseWhitespace(Strip(Lower(activity)))

\* {self._normalize(x) for x in list}
NormalizedSet(list) == {Normalize(x) : x \in Range(list)}

\* self._synonym_map as __init__ builds it: every synonym listed under a
\* key maps to that key and to all the synonyms listed with it
synonym_map ==
    LET listed == UNION {NormalizedSet(SYNONYMS[i].values) : i \in 1..Len(SYNONYMS)}
    IN [x \in listed |->
          UNION {{Normalize(SYNONYMS[i].key)} \cup NormalizedSet(SYNONYMS[i].values) :
                 i \in {j \in 1..Len(SYNONYMS) : x \in NormalizedSet(SYNONYMS[j].values)}}]

\* the activities of one category, as listed and normalized
CategoryActivities(values) == Range(values) \cup NormalizedSet(values)

\* if normalized in self.CATEGORIES: ...
ExactCategory(normalized) ==
    IF HasKey(CATEGORIES, normalized)
    THEN CategoryActivities(Lookup(CATEGORIES, normalized))
    ELSE {}

\* a pattern test that only looks for the category inside the term
CategoryInTermOnly(normalized, category) == Contains(normalized, category)

\* normalized in category or category in normalized
CategoryPattern(normalized, category) ==
    Contains(category, normalized) \/ Contains(normalized, category)

\* for category, activities in self.CATEGORIES.items(): ...
PatternCategories(normalized) ==
    UNION {CategoryActivities(CATEGORIES[i].values) :
           i \in {j \in 1..Len(CATEGORIES) :
                     CategoryPattern(normalized, CATEGORIES[j].key)}}

\* an expansion that never consults the reverse map
NoMappedSynonyms(normalized) == {}

\* if normalized in self._synonym_map: ...
MappedSynonyms(normalized) ==
    IF normalized \in DOMAIN synonym_map THEN synonym_map[normalized] ELSE {}

\* a toggle that only ever appends the s
PluralOnly(normalized) == normalized \o <<"s">>

\* the plural/singular variant: without the final s, or with an s added
PluralSingular(normalized) ==
    IF EndsWith(normalized, <<"s">>)
    THEN DropLast(normalized, 1)
    ELSE normalized \o <<"s">>

\* if normalized in self.SYNONYMS: ...
DirectSynonyms(normalized) ==
    IF HasKey(SYNONYMS, normalized)
    THEN NormalizedSet(Lookup(SYNONYMS, normalized))
    ELSE {}

\* ActivityMatcher.expand_activity
expand_activity(activity) ==
    LET normalized == Normalize(activity)
    IN {normalized, Strip(Lower(activity))}
       \cup ExactCategory(normalized)
       \cup PatternCategories(normalized)
       \cup MappedSynonyms(normalized)
       \cup {PluralSingular(normalized)}
       \cup DirectSynonyms(normalized)

-----------------------------------------------------------------------------
(* ImprovedRetriever.search_with_filters (retrieval/improved_retriever.py). *)
(* A Whoosh query is a record: class is its Python class, fieldname and     *)
(* text are those of a Term, texts are the texts of an Or built from a set  *)
(* of Terms (a set has no order), subqueries are those of an And or an Or   *)
(* built from a list.  What QueryParser.parse returns is kept as its class, *)
(* its field and the text it was parsed from; the OR-joined text of a set   *)
(* of terms is kept as that set (texts) with the class "Parsed".            *)

NoText == << >>

Term(fieldname, text) ==
    [class |-> "Term", fieldname |-> fieldname, text |-> text, texts |-> {},
     subqueries |-> << >>]

\* Or([Term(fieldname, t) for t in texts])
OrOfTerms(fieldname, texts) ==
    [class |-> "Or", fieldname |-> fieldname, text |-> NoText, texts |-> texts,
     subqueries |-> << >>]

Or(subqueries) ==
    [class |-> "Or", fieldname |-> "", text |-> NoText, texts |-> {},
     subqueries |-> subqueries]

And(subqueries) ==
    [class |-> "And", fieldname |-> "", text |-> NoText, texts |-> {},
     subqueries |-> subqueries]

\* text.split()
RECURSIVE SplitWords(_)
SplitWords(s) ==
    LET t == LStrip(s)
    IN IF t = << >> THEN << >>
       ELSE LET n == CHOOSE k \in 1..Len(t) :
                        /\ \A i \in 1..k : t[i] \notin Whitespace
                        /\ (k = Len(t) \/ t[k + 1] \in Whitespace)
            IN <<SubSeq(t, 1, n)>> \o SplitWords(SubSeq(t, n + 1, Len(t)))

\* the class of QueryParser("content", schema).parse(text): no word gives a
\* NullQuery, one word a Term, an infix OR an Or, several words an And
ParsedClass(text) ==
    LET words == SplitWords(text)
    IN IF Len(words) = 0 THEN "NullQuery"
       ELSE IF Len(words) = 1 THEN "Term"
       ELSE IF \E i \in 2..(Len(words) - 1) : words[i] = <<"O","R">> THEN "Or"
       ELSE "And"

\* QueryParser("content", schema=self.ix.schema).parse(text)
Parse(text) ==
    [class |-> ParsedClass(text), fieldname |-> "content", text |-> text,
     texts |-> {}, subqueries |-> << >>]

\* QueryParser("content", ...).parse(' OR '.join(terms))
ParseOrJoined(terms) ==
    [class |-> "Parsed", fieldname |-> "content", text |-> NoText,
     texts |-> terms, subqueries |-> << >>]

\* the truth value of an Optional[str] argument: None is the empty string here
NoneStr == << >>

\* isinstance(q, (Or, Term))
IsOrOrTerm(q) == q.class \in {"Or", "Term"}

\* hasattr(q, 'fieldname'): a Term has the attribute, a compound query has not
HasFieldname(q) == q.class = "Term"

\* the location clauses: if city: ... ; if country: ...
LocationQueries(city, country) ==
    (IF city # NoneStr THEN <<Parse(Lower(city))>> ELSE << >>)
    \o (IF country # NoneStr THEN <<Parse(Lower(country))>> ELSE << >>)

\* activities and len(activities) > 0
HasActivityFilter(activities) == Len(activities) > 0

\* the set expanded_activities of the strict pass
ExpandedActivities(activities) ==
    UNION {expand_activity(a) \cup {Strip(Lower(a))} : a \in Range(activities)}

\* the texts of the Terms made for one expanded activity
StructuredTexts(expanded_activity) ==
    LET normalized == Strip(Lower(expanded_activity))
        s == <<"s">>
        es == <<"e","s">>
    IN {normalized}
       \cup (IF EndsWith(normalized, s) /\ Len(normalized) > 1
             THEN {DropLast(normalized, 1)}
             ELSE IF ~EndsWith(normalized, s) THEN {normalized \o s} ELSE {})
       \cup (IF EndsWith(normalized, es) THEN {DropLast(normalized, 2)}
             ELSE IF EndsWith(normalized, s) THEN {normalized \o es} ELSE {})

\* unique_activities
UniqueActivities(activities) ==
    UNION {StructuredTexts(e) : e \in ExpandedActivities(activities)}

\* Or(activity_queries) if len(activity_queries) > 1 else activity_queries[0]
StructuredActivityQuery(activities) ==
    LET unique == UniqueActivities(activities)
    IN IF Cardinality(unique) > 1 THEN OrOfTerms("activities", unique)
       ELSE Term("activities", CHOOSE t \in unique : TRUE)

\* activity_terms[:10]
BackstopLimit == 10

\* the sets set(activity_terms[:n]) can be: activity_terms lists, for each
\* activity in turn, its expansion in the iteration order of a set (any
\* order) and then the activity itself
RECURSIVE FirstTermSets(_, _)
FirstTermSets(activities, n) ==
    IF n <= 0 \/ activities = << >> THEN {{}}
    ELSE LET expanded == expand_activity(Head(activities))
             original == Strip(Lower(Head(activities)))
         IN IF Cardinality(expanded) >= n
            THEN {x \in SUBSET expanded : Cardinality(x) = n}
            ELSE {expanded \cup {original} \cup rest :
                  rest \in FirstTermSets(Tail(activities),
                                         n - Cardinality(expanded) - 1)}

\* the test of the list comprehension that replaces the activity query:
\* not isinstance(q, (Or, Term)) or (hasattr(q, 'fieldname') and
\* q.fieldname != 'activities')
KeptInQueries(q) ==
    ~IsOrOrTerm(q) \/ (HasFieldname(q) /\ q.fieldname # "activities")

\* And(queries) if len(queries) > 1 else queries[0]
AndOrSingle(queries) == IF Len(queries) > 1 THEN And(queries) ELSE queries[1]

\* final_query of the strict pass; backstop is set(activity_terms[:10])
StrictQuery(query, city, country, activities, backstop) ==
    LET located == <<Parse(query)>> \o LocationQueries(city, country)
    IN IF ~HasActivityFilter(activities) THEN AndOrSingle(located)
       ELSE LET structured == StructuredActivityQuery(activities)
                combined == Or(<<structured, ParseOrJoined(backstop)>>)
                kept == SelectSeq(located \o <<structured>>, KeptInQueries)
            IN AndOrSingle(kept \o <<combined>>)

\* set(activity_terms) of the lenient search
RelaxedTerms(activities) ==
    UNION {{e, PluralSingular(e)} :
           e \in UNION {expand_activity(a) : a \in Range(activities)}}

\* a lenient query that forgets the location
RelaxedQueryNoLocation(city, country, activities) ==
    ParseOrJoined(RelaxedTerms(activities))

\* final_query of the lenient search
RelaxedQuery(city, country, activities) ==
    AndOrSingle(<<ParseOrJoined(RelaxedTerms(activities))>>
                \o LocationQueries(city, country))

\* a guard that always tries the lenient search as well
AlwaysFallback(activities, hits) == TRUE

\* a guard that gives up after the strict pass
NeverFallback(activities, hits) == FALSE

\* activities and len(activities) > 0 and len(results) == 0
NeedsFallback(activities, hits) ==
    HasActivityFilter(activities) /\ Len(hits) = 0

\* what self.searcher.search(final_query, limit=limit) can return
BackendHits(n) == {r \in Rankings : Len(r) <= n}

\* formatted_results: one dict per hit, in the order of the hits
FormatResults(hits) == [i \in 1..Len(hits) |-> Bm25Hit(hits[i], i)]

\* the whole call, given the two queries it builds and what the backend
\* answers to each: the lenient search runs only when NeedsFallback
SearchWithFilters(strict_query, relaxed_query, activities, strict_hits, relaxed_hits) ==
    LET strict == [query |-> strict_query, hits |-> strict_hits]
        relaxed == [query |-> relaxed_query, hits |-> relaxed_hits]
    IN IF NeedsFallback(activities, strict_hits)
       THEN [searches |-> <<strict, relaxed>>, results |-> FormatResults(relaxed_hits)]
       ELSE [searches |-> <<strict>>, results |-> FormatResults(strict_hits)]

(* The calls of search_with_filters.                                       *)

QueryTexts ==
    {<<"m","u","s","e","u","m","s">>,
     <<"a","r","t"," ","m","u","s","e","u","m","s">>,
     <<"b","e","a","c","h"," ","O","R"," ","s","p","a">>,
     << >>}

Cities == {NoneStr, Paris, <<"N","e","w"," ","Y","o","r","k">>}

Countries == {NoneStr, France}

ActivityLists ==
    {<< >>,
     << <<"h","i","k","i","n","g">> >>,
     << <<"n","o","n","e","x","i","s","t","e","n","t","_","x","y","z">> >>,
     << <<"T","o","u","r">>, <<"w","i","n","e"," "," ","t","a","s","t","i","n","g">> >>,
     << <<"t","o","u","r">>, <<"m","u","s","e","u","m">>, <<"h","i","k","i","n","g">> >>}

FiltersInit ==
    /\ FusionIdle
    /\ HybridIdle
    /\ AppIdle
    /\ RewriteIdle
    /\ ExpandIdle
    /\ FuzzyIdle
    /\ MatchIdle
    /\ EmbedIdle
    /\ ClosureIdle
    /\ swf_query \in QueryTexts
    /\ swf_city \in Cities
    /\ swf_country \in Countries
    /\ swf_activities \in ActivityLists
    /\ swf_limit \in 1..MaxLimit
    /\ swf_searches = << >>
    /\ swf_results = << >>
    /\ swf_pc = "call"

search_with_filters ==
    /\ swf_pc = "call"
    /\ \E backstop \in FirstTermSets(swf_activities, BackstopLimit) :
       \E strict_query \in {StrictQuery(swf_query, swf_city, swf_country,
                                        swf_activities, backstop)},
          relaxed_query \in {RelaxedQuery(swf_city, swf_country, swf_activities)} :
       \E strict_hits \in BackendHits(swf_limit),
          relaxed_hits \in BackendHits(swf_limit) :
          \E call \in {SearchWithFilters(strict_query, relaxed_query, swf_activities,
                                        strict_hits, relaxed_hits)} :
             /\ swf_searches' = call.searches
             /\ swf_results' = call.results
    /\ swf_pc' = "returned"
    /\ UNCHANGED <<swf_query, swf_city, swf_country, swf_activities, swf_limit>>
    /\ UNCHANGED <<fusionVars, hybridVars, appVars, rewriteVars, expandVars, fuzzyVars, matchVars, embedVars, closureVars>>

FiltersNext == search_with_filters

SpecFilters == FiltersInit /\ [][FiltersNext]_vars

(* The calls of expand_activity.                                           *)

\* every string of the two tables
TableTerms ==
    UNION {{SYNONYMS[i].key} \cup Range(SYNONYMS[i].values) : i \in 1..Len(SYNONYMS)}
    \cup UNION {{CATEGORIES[i].key} \cup Range(CATEGORIES[i].values) :
                i \in 1..Len(CATEGORIES)}

\* terms as a user or the language model writes them
OtherTerms ==
    {<< >>,
     <<"s">>,
     <<"a">>,
     <<"s","p","a">>,
     <<"o","u","t">>,
     <<"h","i","k","e">>,
     <<"g","l","a","s","s">>,
     <<" ","T","o","u","r"," ">>,
     <<"T","O","U","R","S">>,
     <<"W","i","n","e"," "," ","T","a","s","t","i","n","g">>,
     <<"c","i","t","y","\t","t","o","u","r","s","\n">>,
     <<"O","u","t","d","o","o","r"," "," ","A","c","t","i","v","i","t","i","e","s">>,
     <<"g","u","i","d","e","d"," ","t","o","u","r","s"," ","o","f"," ","f","o","o","d">>,
     <<"n","o","n","e","x","i","s","t","e","n","t","_","x","y","z">>}

Terms == TableTerms \cup OtherTerms

ExpandInit ==
    /\ FusionIdle
    /\ HybridIdle
    /\ AppIdle
    /\ RewriteIdle
    /\ FiltersIdle
    /\ FuzzyIdle
    /\ MatchIdle
    /\ EmbedIdle
    /\ ClosureIdle
    /\ ea_activity \in Terms
    /\ ea_expanded = {}
    /\ ea_pc = "call"

ExpandActivityCall ==
    /\ ea_pc = "call"
    /\ ea_expanded' = expand_activity(ea_activity)
    /\ ea_pc' = "returned"
    /\ UNCHANGED ea_activity
    /\ UNCHANGED <<fusionVars, hybridVars, appVars, rewriteVars, filterVars, fuzzyVars, matchVars, embedVars, closureVars>>

ExpandNext == ExpandActivityCall

SpecExpand == ExpandInit /\ [][ExpandNext]_vars

(* ActivityMatcher._fuzzy_match and what it calls.                         *)

\* s.rstrip(chars): chars is a set of characters, all trailing characters
\* of s that are in it go
RECURSIVE RStripChars(_, _)
RStripChars(s, chars) ==
    IF s # << >> /\ s[Len(s)] \in chars
    THEN RStripChars(SubSeq(s, 1, Len(s) - 1), chars)
    ELSE s

\* a.rstrip('s').rstrip('es').rstrip('ing')
PluralBase(a) ==
    RStripChars(RStripChars(RStripChars(a, {"s"}), {"e", "s"}), {"i", "n", "g"})

\* ActivityMatcher._is_plural_variant
is_plural_variant(a1, a2) ==
    \/ PluralBase(a1) = PluralBase(a2) /\ Len(PluralBase(a1)) > 2
    \/ a1 = a2 \o <<"s">> \/ a1 = a2 \o <<"e", "s">>
    \/ a2 = a1 \o <<"s">> \/ a2 = a1 \o <<"e", "s">>

\* sum(1 for c in s1 if c in s2)
CommonCharacters(s1, s2) ==
    Cardinality({i \in 1..Len(s1) : \E j \in 1..Len(s2) : s1[i] = s2[j]})

\* a similarity that compares the strings position by position
PositionalSimilarity(s1, s2) ==
    IF s1 = << >> \/ s2 = << >> THEN Zero
    ELSE Rat(Cardinality({i \in 1..Len(s1) : i <= Len(s2) /\ s1[i] = s2[i]}),
             IF Len(s1) > Len(s2) THEN Len(s1) ELSE Len(s2))

\* ActivityMatcher._simple_similarity
simple_similarity(s1, s2) ==
    IF s1 = << >> \/ s2 = << >> THEN Zero
    ELSE Rat(CommonCharacters(s1, s2),
             IF Len(s1) > Len(s2) THEN Len(s1) ELSE Len(s2))

\* threshold: float = 0.8
Threshold == Rat(4, 5)

\* ActivityMatcher._fuzzy_match, with the default threshold
fuzzy_match(query, data) ==
    LET query_norm == Normalize(query)
        data_norm == Normalize(data)
    IN \/ query_norm = data_norm
       \/ Contains(data_norm, query_norm) \/ Contains(query_norm, data_norm)
       \/ is_plural_variant(query_norm, data_norm)
       \/ ~RatLess(simple_similarity(query_norm, data_norm), Threshold)

(* The calls of _fuzzy_match and of _simple_similarity.                    *)

FuzzyTerms ==
    {<< >>,
     <<"a","b","c">>, <<"c","a","b">>, <<"a","b","c","c">>, <<"a","a","b","c">>,
     <<"t","o","u","r">>, <<"t","o","u","r","s">>, <<" ","T","o","u","r"," ">>,
     <<"c","i","t","y"," ","t","o","u","r">>,
     <<"g","r","a","s","s">>, <<"g","r","a","i","n">>,
     <<"h","i","k","e">>, <<"h","i","k","e","s">>, <<"h","i","k","i","n","g">>,
     <<"b","o","x">>, <<"b","o","x","e","s">>,
     <<"b","e","a","c","h">>, <<"b","e","a","c","h","e","s">>,
     <<"s","n","o","r","k","e","l","i","n","g">>,
     <<"s","n","o","r","k","e","l","l","i","n","g">>,
     <<"s","p","a">>, <<"y","o","g","a">>}

FuzzyInit ==
    /\ FusionIdle
    /\ HybridIdle
    /\ AppIdle
    /\ RewriteIdle
    /\ FiltersIdle
    /\ ExpandIdle
    /\ MatchIdle
    /\ EmbedIdle
    /\ ClosureIdle
    /\ fm_query_activity \in FuzzyTerms
    /\ fm_data_activity \in FuzzyTerms
    /\ fm_outcome = [outcome |-> "none"]
    /\ fm_pc = "call"

\* self._fuzzy_match(query_activity, data_activity)
FuzzyMatchCall ==
    /\ fm_pc = "call"
    /\ fm_outcome' = [outcome |-> "matched",
                      match |-> fuzzy_match(fm_query_activity, fm_data_activity),
                      similarity |-> Zero]
    /\ fm_pc' = "returned"
    /\ UNCHANGED <<fm_query_activity, fm_data_activity>>
    /\ UNCHANGED <<fusionVars, hybridVars, appVars, rewriteVars, filterVars, expandVars, matchVars, embedVars, closureVars>>

\* self._simple_similarity(query_activity, data_activity)
SimpleSimilarityCall ==
    /\ fm_pc = "call"
    /\ fm_outcome' = [outcome |-> "similarity",
                      match |-> FALSE,
                      similarity |-> simple_similarity(fm_query_activity,
                                                       fm_data_activity)]
    /\ fm_pc' = "returned"
    /\ UNCHANGED <<fm_query_activity, fm_data_activity>>
    /\ UNCHANGED <<fusionVars, hybridVars, appVars, rewriteVars, filterVars, expandVars, matchVars, embedVars, closureVars>>

FuzzyNext == FuzzyMatchCall \/ SimpleSimilarityCall

SpecFuzzy == FuzzyInit /\ [][FuzzyNext]_vars

-----------------------------------------------------------------------------
(* ActivityMatcher.match_activities and find_matching_activities.          *)

\* expanded_queries: the union of expand_activity over the query activities
ExpandedQueries(query_activities) ==
    UNION {expand_activity(q_activity) : q_activity \in Range(query_activities)}

\* a test that knows only the exact match in the expanded set
ExactMatchOnly(expanded_queries, data_activity) ==
    Normalize(data_activity) \in expanded_queries

\* the test both loops make of one data activity: data_norm in
\* expanded_queries, or some expanded query passes _fuzzy_match
DataActivityMatches(expanded_queries, data_activity) ==
    \/ Normalize(data_activity) \in expanded_queries
    \/ \E expanded_query \in expanded_queries :
           fuzzy_match(expanded_query, data_activity)

\* for data_activity in data_activities: ... return True; return False
RECURSIVE MatchLoop(_, _, _)
MatchLoop(expanded_queries, data_activities, i) ==
    IF i > Len(data_activities) THEN FALSE
    ELSE IF DataActivityMatches(expanded_queries, data_activities[i]) THEN TRUE
    ELSE MatchLoop(expanded_queries, data_activities, i + 1)

\* ActivityMatcher.match_activities
match_activities(query_activities, data_activities) ==
    IF query_activities = << >> \/ data_activities = << >> THEN FALSE
    ELSE MatchLoop(ExpandedQueries(query_activities), data_activities, 1)

\* a loop that collects the normalized form of each matching data activity
RECURSIVE FindLoopNormalized(_, _, _, _)
FindLoopNormalized(expanded_queries, data_activities, i, matches) ==
    IF i > Len(data_activities) THEN matches
    ELSE FindLoopNormalized(expanded_queries, data_activities, i + 1,
             IF DataActivityMatches(expanded_queries, data_activities[i])
             THEN Append(matches, Normalize(data_activities[i]))
             ELSE matches)

\* for data_activity in data_activities: ... matches.append(data_activity)
\* (continue after the exact match, break after the first fuzzy match)
RECURSIVE FindLoop(_, _, _, _)
FindLoop(expanded_queries, data_activities, i, matches) ==
    IF i > Len(data_activities) THEN matches
    ELSE FindLoop(expanded_queries, data_activities, i + 1,
             IF DataActivityMatches(expanded_queries, data_activities[i])
             THEN Append(matches, data_activities[i])
             ELSE matches)

\* ActivityMatcher.find_matching_activities
find_matching_activities(query_activities, data_activities) ==
    IF query_activities = << >> \/ data_activities = << >> THEN << >>
    ELSE FindLoop(ExpandedQueries(query_activities), data_activities, 1, << >>)

(* The calls of match_activities and of find_matching_activities.          *)

Snorkeling == <<"s","n","o","r","k","e","l","i","n","g">>
Diving == <<"d","i","v","i","n","g">>
Hiking == <<"h","i","k","i","n","g">>
Camping == <<"c","a","m","p","i","n","g">>
Yoga == <<"y","o","g","a">>

QueryActivityLists ==
    {<< >>,
     <<Snorkeling>>,
     <<Hiking>>,
     << <<"c","i","t","y"," ","t","o","u","r">> >>,
     << <<"g","r","a","s","s">> >>,
     << <<"w","e","l","l","n","e","s","s">> >>,
     << <<" ","W","i","n","e"," "," ","T","a","s","t","i","n","g">>, <<"m","u","s","e","u","m">> >>}

DataActivityLists ==
    {<< >>,
     <<Snorkeling, Diving>>,
     <<Hiking, Camping>>,
     << <<"c","i","t","y"," ","t","o","u","r","s">> >>,
     << <<"h","i","k","e">> >>,
     << <<"g","r","a","i","n">> >>,
     <<Yoga, <<"S","n","o","r","k","e","l"," ">>, Yoga, <<"S","n","o","r","k","e","l"," ">> >>,
     << <<"G","a","l","l","e","r","i","e","s">>, Camping, <<"w","i","n","e"," ","t","a","s","t","i","n","g","s">> >>,
     << <<"x","y","z">> >>}

MatchInit ==
    /\ FusionIdle
    /\ HybridIdle
    /\ AppIdle
    /\ RewriteIdle
    /\ FiltersIdle
    /\ ExpandIdle
    /\ FuzzyIdle
    /\ EmbedIdle
    /\ ClosureIdle
    /\ ma_query_activities \in QueryActivityLists
    /\ ma_data_activities \in DataActivityLists
    /\ ma_outcome = [outcome |-> "none"]
    /\ ma_pc = "call"

\* self.match_activities(query_activities, data_activities)
MatchActivitiesCall ==
    /\ ma_pc = "call"
    /\ \E value \in {match_activities(ma_query_activities, ma_data_activities)} :
          ma_outcome' = [outcome |-> "match", match |-> value, matches |-> << >>]
    /\ ma_pc' = "returned"
    /\ UNCHANGED <<ma_query_activities, ma_data_activities>>
    /\ UNCHANGED <<fusionVars, hybridVars, appVars, rewriteVars, filterVars, expandVars, fuzzyVars, embedVars, closureVars>>

\* self.find_matching_activities(query_activities, data_activities)
FindMatchingActivitiesCall ==
    /\ ma_pc = "call"
    /\ \E value \in {find_matching_activities(ma_query_activities, ma_data_activities)} :
          ma_outcome' = [outcome |-> "find", match |-> FALSE, matches |-> value]
    /\ ma_pc' = "returned"
    /\ UNCHANGED <<ma_query_activities, ma_data_activities>>
    /\ UNCHANGED <<fusionVars, hybridVars, appVars, rewriteVars, filterVars, expandVars, fuzzyVars, embedVars, closureVars>>

MatchNext == MatchActivitiesCall \/ FindMatchingActivitiesCall

SpecMatch == MatchInit /\ [][MatchNext]_vars

-----------------------------------------------------------------------------
(* EmbeddingGenerator.generate_embeddings_batch                            *)
(* (retrieval/embedding_generator.py).  A vector is kept as its length and *)
(* what it embeds; the floats themselves play no part.                     *)

\* the models the constructor documents
EmbeddingModels ==
    {"text-embedding-3-small", "text-embedding-3-large", "text-embedding-ada-002"}

\* EmbeddingGenerator.get_embedding_dimension
get_embedding_dimension(model) ==
    CASE model = "text-embedding-3-small" -> 1536
      [] model = "text-embedding-3-large" -> 3072
      [] model = "text-embedding-ada-002" -> 1536
      [] OTHER -> 1536

\* item.embedding of a response of self.client.embeddings.create for model
Embedding(model, text) ==
    [kind |-> "embedding", text |-> text, length |-> get_embedding_dimension(model)]

\* [0.0] * 1536
ZeroVectorLength == 1536

\* embeddings.append([0.0] * 1536)
ZeroVector == [kind |-> "zero", text |-> "", length |-> ZeroVectorLength]

\* the except branch: for text in batch: generate_embedding(text), and the
\* zero vector when that raises
RECURSIVE FallbackLoop(_, _, _, _, _, _)
FallbackLoop(texts, model, from, to, failing_texts, embeddings) ==
    IF from > to THEN embeddings
    ELSE FallbackLoop(texts, model, from + 1, to, failing_texts,
             Append(embeddings,
                    IF from \in failing_texts THEN ZeroVector
                    ELSE Embedding(model, texts[from])))

\* for i in range(0, len(texts), batch_size): batch = texts[i:i + batch_size]
\* i counts from 0 as in the code; the batch is the positions i+1 .. i+batch_size
RECURSIVE BatchLoop(_, _, _, _, _, _, _)
BatchLoop(texts, model, batch_size, i, failing_batches, failing_texts, embeddings) ==
    IF i >= Len(texts) THEN embeddings
    ELSE LET to == IF i + batch_size < Len(texts) THEN i + batch_size ELSE Len(texts)
             batch_embeddings == [j \in 1..(to - i) |-> Embedding(model, texts[i + j])]
         IN BatchLoop(texts, model, batch_size, i + batch_size, failing_batches,
                      failing_texts,
                      IF (i \div batch_size) + 1 \in failing_batches
                      THEN FallbackLoop(texts, model, i + 1, to, failing_texts, embeddings)
                      ELSE embeddings \o batch_embeddings)

\* the value generate_embeddings_batch returns
GenerateEmbeddingsBatch(texts, model, batch_size, failing_batches, failing_texts) ==
    BatchLoop(texts, model, batch_size, 0, failing_batches, failing_texts, << >>)

(* The calls of generate_embeddings_batch.                                 *)

\* longest list of texts of a call
MaxTexts == 3

\* largest batch_size of a call
MaxBatchSize == 2

TextLists ==
    {SubSeq(<<"text1", "text2", "text3">>, 1, n) : n \in 0..MaxTexts}

EmbedInit ==
    /\ FusionIdle
    /\ HybridIdle
    /\ AppIdle
    /\ RewriteIdle
    /\ FiltersIdle
    /\ ExpandIdle
    /\ FuzzyIdle
    /\ MatchIdle
    /\ ClosureIdle
    /\ eb_model \in EmbeddingModels
    /\ eb_texts \in TextLists
    /\ eb_batch_size \in 1..MaxBatchSize
    /\ eb_failing_batches \in SUBSET (1..Len(eb_texts))
    /\ eb_failing_texts \in SUBSET (1..Len(eb_texts))
    /\ eb_embeddings = << >>
    /\ eb_pc = "call"

generate_embeddings_batch ==
    /\ eb_pc = "call"
    /\ eb_embeddings' = GenerateEmbeddingsBatch(eb_texts, eb_model, eb_batch_size,
                                                eb_failing_batches, eb_failing_texts)
    /\ eb_pc' = "returned"
    /\ UNCHANGED <<eb_model, eb_texts, eb_batch_size, eb_failing_batches, eb_failing_texts>>
    /\ UNCHANGED <<fusionVars, hybridVars, appVars, rewriteVars, filterVars, expandVars, fuzzyVars, matchVars, closureVars>>

EmbedNext == generate_embeddings_batch

SpecEmbed == EmbedInit /\ [][EmbedNext]_vars

-----------------------------------------------------------------------------
(* ActivityMatcher.expand_activity applied again to what it returns: the   *)
(* running union of the expansions of every member found so far.           *)

\* one round: expand_activity(m) for every member m of the running union
ReExpand(union) == union \cup UNION {expand_activity(member) : member \in union}

\* the keys of CATEGORIES
CategoryTerms == {CATEGORIES[i].key : i \in 1..Len(CATEGORIES)}

\* the rounds the model makes at most
MaxRounds == 6

ClosureInit ==
    /\ FusionIdle
    /\ HybridIdle
    /\ AppIdle
    /\ RewriteIdle
    /\ FiltersIdle
    /\ ExpandIdle
    /\ FuzzyIdle
    /\ MatchIdle
    /\ EmbedIdle
    /\ fx_term \in Terms
    /\ fx_union = {}
    /\ fx_new = {}
    /\ fx_round = 0
    /\ fx_pc = "start"

\* expanded = self.expand_activity(term)
ExpandTerm ==
    /\ fx_pc = "start"
    /\ \E expanded \in {expand_activity(fx_term)} :
          /\ fx_union' = expanded
          /\ fx_new' = expanded
    /\ fx_pc' = "running"
    /\ UNCHANGED <<fx_term, fx_round>>
    /\ UNCHANGED <<fusionVars, hybridVars, appVars, rewriteVars, filterVars, expandVars, fuzzyVars, matchVars, embedVars>>

\* expanded.update(self.expand_activity(m)) for every member m found so far
ReExpandMembers ==
    /\ fx_pc = "running"
    /\ fx_round < MaxRounds
    /\ \E reexpanded \in {ReExpand(fx_union)} :
          /\ fx_union' = reexpanded
          /\ fx_new' = reexpanded \ fx_union
          /\ fx_pc' = IF reexpanded = fx_union THEN "fixed" ELSE "running"
    /\ fx_round' = fx_round + 1
    /\ UNCHANGED fx_term
    /\ UNCHANGED <<fusionVars, hybridVars, appVars, rewriteVars, filterVars, expandVars, fuzzyVars, matchVars, embedVars>>

ClosureNext == ExpandTerm \/ ReExpandMembers

SpecClosure == ClosureInit /\ [][ClosureNext]_vars

-----------------------------------------------------------------------------
(* Properties of reciprocal_rank_fusion, checked under SpecFusion.         *)

Returned == fusion_pc = "returned"

\* the positions (1-based ranks) of doc_id in a result list
Positions(results, doc_id) == {i \in 1..Len(results) : results[i].doc_id = doc_id}

\* what a list may contribute to doc_id by the 1/(k + rank) rule: 0 when the
\* list does not contain it, else 1/(k + rank) for a rank it holds there
Contributions(results, doc_id) ==
    IF Positions(results, doc_id) = {} THEN {Zero}
    ELSE {Rat(1, rrf_k + r) : r \in Positions(results, doc_id)}

\* the doc_ids of the two input lists
InputIds ==
    ({bm25_results[i].doc_id : i \in 1..Len(bm25_results)}
        \cup {vector_results[i].doc_id : i \in 1..Len(vector_results)}) \ {NoDocId}

OutputIds == [i \in 1..Len(final_results) |-> final_results[i].doc_id]

\* the place of doc_id in the output
OutputPlace(doc_id) == CHOOSE i \in 1..Len(final_results) : final_results[i].doc_id = doc_id

\* doc_id occurs exactly once in the list, so it has one rank there
HasRank(results, doc_id) == Cardinality(Positions(results, doc_id)) = 1

RankIn(results, doc_id) == CHOOSE r \in Positions(results, doc_id) : TRUE

\* C1: every output document's rrf_score is the sum, over the input lists
\* that contain its doc_id, of 1/(k + rank) for its rank in that list, a list
\* without it contributing 0.
C1_RrfScoreIsSumOfReciprocalRanks ==
    Returned =>
        \A i \in 1..Len(final_results) :
            \E a \in Contributions(bm25_results, final_results[i].doc_id),
               b \in Contributions(vector_results, final_results[i].doc_id) :
                final_results[i].rrf_score = RatAdd(a, b)

\* the case of C2: listA = [d1, d2], listB = [d2, d3], k = 60
C2_Example ==
    /\ rrf_k = 60
    /\ [i \in 1..Len(bm25_results) |-> bm25_results[i].doc_id] = <<"d1", "d2">>
    /\ [i \in 1..Len(vector_results) |-> vector_results[i].doc_id] = <<"d2", "d3">>
    /\ Returned

\* C2 as stated: on the example, score(d2) = 2/61, score(d1) = 1/61,
\* score(d3) = 1/62 and the fused order is [d2, d1, d3].
C2_ExampleScoresAsStated ==
    C2_Example =>
        /\ OutputIds = <<"d2", "d1", "d3">>
        /\ final_results[1].rrf_score = Rat(2, 61)
        /\ final_results[2].rrf_score = Rat(1, 61)
        /\ final_results[3].rrf_score = Rat(1, 62)

\* C2 amended: on the example d2 holds rank 2 in listA and rank 1 in listB,
\* so score(d2) = 1/62 + 1/61 = 123/3782; score(d1) = 1/61, score(d3) = 1/62
\* and the fused order is [d2, d1, d3].
C2_ExampleScoresAmended ==
    C2_Example =>
        /\ OutputIds = <<"d2", "d1", "d3">>
        /\ final_results[1].rrf_score = Rat(123, 3782)
        /\ final_results[1].rrf_score = RatAdd(Rat(1, 62), Rat(1, 61))
        /\ final_results[2].rrf_score = Rat(1, 61)
        /\ final_results[3].rrf_score = Rat(1, 62)

C2_Witness == C2_Example /\ Len(final_results) = 3

\* the ids in the order they are met iterating the BM25 list, then the vector list
EncounterSeq ==
    [i \in 1..(Len(bm25_results) + Len(vector_results)) |->
        IF i <= Len(bm25_results) THEN bm25_results[i].doc_id
        ELSE vector_results[i - Len(bm25_results)].doc_id]

FirstEncounter(doc_id) ==
    CHOOSE i \in 1..Len(EncounterSeq) :
        /\ EncounterSeq[i] = doc_id
        /\ \A j \in 1..(i - 1) : EncounterSeq[j] # doc_id

\* C3: the output is ordered by non-increasing rrf_score, and documents of
\* equal rrf_score appear in the order their doc_ids were first met iterating
\* the BM25 list and then the vector list.
C3_SortedDescendingStable ==
    Returned =>
        \A i, j \in 1..Len(final_results) :
            i < j =>
                /\ ~RatLess(final_results[i].rrf_score, final_results[j].rrf_score)
                /\ final_results[i].rrf_score = final_results[j].rrf_score
                       => FirstEncounter(final_results[i].doc_id)
                              < FirstEncounter(final_results[j].doc_id)

\* a tie between a vector-only and a BM25-only document, below a better one
C3_Witness ==
    /\ Returned
    /\ \E i, j, h \in 1..Len(final_results) :
          /\ h < i /\ i < j
          /\ RatLess(final_results[i].rrf_score, final_results[h].rrf_score)
          /\ final_results[i].rrf_score = final_results[j].rrf_score
          /\ Positions(vector_results, final_results[i].doc_id) = {}
          /\ Positions(bm25_results, final_results[j].doc_id) = {}

Min(a, b) == IF a < b THEN a ELSE b

\* doc_id holds one rank in each of the two lists
InBothLists(doc_id) == HasRank(bm25_results, doc_id) /\ HasRank(vector_results, doc_id)

\* doc_id holds one rank in one list and is absent from the other
InOneListOnly(doc_id) ==
    \/ HasRank(bm25_results, doc_id) /\ Positions(vector_results, doc_id) = {}
    \/ HasRank(vector_results, doc_id) /\ Positions(bm25_results, doc_id) = {}

SingleRank(doc_id) ==
    IF HasRank(bm25_results, doc_id) THEN RankIn(bm25_results, doc_id)
    ELSE RankIn(vector_results, doc_id)

CarriedScores(doc) == {doc.score, doc.bm25_score, doc.vector_score}

\* the scores a source list assigned to doc_id
SourceScores(results, doc_id) == {results[i].score : i \in Positions(results, doc_id)}

\* C5: every output entry preserves, alongside rrf_score, the original score
\* each source list assigned to the document: the BM25 relevance score and
\* the vector similarity score, both of them for a document in both lists.
C5_SourceScoresPreserved ==
    Returned =>
        \A i \in 1..Len(final_results) :
            LET doc == final_results[i] IN
            /\ Positions(bm25_results, doc.doc_id) # {}
                  => SourceScores(bm25_results, doc.doc_id) \cap CarriedScores(doc) # {}
            /\ Positions(vector_results, doc.doc_id) # {}
                  => SourceScores(vector_results, doc.doc_id) \cap CarriedScores(doc) # {}

\* C6: the output holds exactly one entry for each distinct doc_id of the two
\* input lists and no other entry, whatever duplicates and overlaps they hold.
C6_OneEntryPerDocId ==
    Returned =>
        /\ {final_results[i].doc_id : i \in 1..Len(final_results)} = InputIds
        /\ Len(final_results) = Cardinality(InputIds)

\* a doc_id twice in one list and also in the other, next to the
\* two-lists-sharing-one-document case
C6_Witness ==
    /\ Returned
    /\ \E d \in InputIds :
          /\ Cardinality(Positions(bm25_results, d)) = 2
          /\ Positions(vector_results, d) # {}
    /\ Len(final_results) = 2


-----------------------------------------------------------------------------
(* Properties of HybridRetriever.search, checked under SpecHybrid.         *)

HybridDone == hybrid_pc = "done"

\* the hybrid request met a vector backend whose search fails
VectorBackendDown == use_hybrid /\ embedding_ok /\ ~qdrant_ok

\* C7: when the vector backend is unavailable during a hybrid request, the
\* search returns the BM25 output with the degradation flagged in the
\* response; it never returns BM25-only results under the label "hybrid".
C7_DegradedHybridIsFlagged ==
    (HybridDone /\ VectorBackendDown) =>
        /\ hybrid_response.outcome = "returned"
        /\ hybrid_response.method # "hybrid"
        /\ [i \in 1..Len(hybrid_response.results) |-> hybrid_response.results[i].doc_id]
               = Take(bm25_ranking, limit)


-----------------------------------------------------------------------------
(* Properties of the web application, checked under SpecApp.               *)

Answered(endpoint) == app_pc = "serving" /\ http_response.endpoint = endpoint

\* the retriever the request's flags select is not initialized
SelectedRetrieverMissing ==
    IF request.use_langchain /\ LANGCHAIN_AVAILABLE
    THEN /\ module_globals["langchain_vector_retriever"] = None
         /\ ~(request.use_hybrid /\ module_globals["langchain_hybrid_retriever"] # None)
    ELSE IF request.use_hybrid THEN module_globals["hybrid_retriever"] = None
    ELSE IF request.use_vector THEN module_globals["vector_retriever"] = None
    ELSE IF request.use_improved THEN module_globals["improved_retriever"] = None
    ELSE module_globals["baseline_retriever"] = None

\* C8: a search request that selects a mode whose retriever is not
\* initialized is answered with status 503, not with the 500 of an
\* unexpected internal fault.
C8_MissingRetrieverAnswers503 ==
    (Answered("search") /\ SelectedRetrieverMissing) => http_response.status = 503

\* start-up constructed the vector and the hybrid retriever without error
VectorAndHybridConstructed ==
    app_pc = "serving" /\ {"VectorRetriever", "HybridRetriever"} \subseteq constructed

\* the last request asked for vector or hybrid search of the native retrievers
NativeVectorOrHybridRequest ==
    /\ Answered("search")
    /\ ~(request.use_langchain /\ LANGCHAIN_AVAILABLE)
    /\ request.use_hybrid \/ request.use_vector

\* C9: once the startup event has constructed the vector and hybrid
\* retrievers without error, the handles /api/search and /api/health read
\* are those retrievers (not None), /api/health reports both available, and
\* a vector or hybrid request is served, not reported unavailable.
C9_StartupPublishesVectorHandles ==
    VectorAndHybridConstructed =>
        /\ module_globals["vector_retriever"] # None
        /\ module_globals["hybrid_retriever"] # None
        /\ Answered("health") =>
              http_response.vector_search /\ http_response.hybrid_search
        /\ NativeVectorOrHybridRequest =>
              ~(http_response.status \in {500, 503}
                  /\ http_response.detail_from = "HTTPException")

-----------------------------------------------------------------------------
(* Claims about QueryRewriter.rewrite_query.                               *)

Rewritten == rewrite_pc = "returned"

\* the reply, as json.loads gives it, is a dict that has city and country,
\* each None or a str, and activities, a list
ExpectedShape(x) ==
    /\ x.t = "dict"
    /\ {"city", "country", "activities"} \subseteq DOMAIN x.v
    /\ x.v["city"].t \in {"null", "str"}
    /\ x.v["country"].t \in {"null", "str"}
    /\ x.v["activities"].t = "list"

\* the LLM call succeeded and its text is one JSON object of that shape
ReplyAsExpected ==
    /\ llm_reply.kind = "content"
    /\ \E i \in 1..Len(llm_reply.content) :
          /\ llm_reply.content[i].tok = "value"
          /\ ExpectedShape(llm_reply.content[i].v)

\* C10: rewrite_query never raises, and whenever the LLM call fails or the
\* reply is not a JSON object of the expected shape (not JSON, not an object,
\* an object with missing or wrongly typed keys) it returns exactly the
\* fallback {city: None, country: None, activities: [], original_query: query}
C10_MalformedReplyGivesFallback ==
    Rewritten =>
        /\ rewrite_outcome.outcome = "returned"
        /\ ~ReplyAsExpected => rewrite_outcome.value = Fallback(user_query)

\* the dict rewrite_query returned
Filter == rewrite_outcome.value.v

\* x is None or a non-empty str other than "null" in any letter case and
\* with any surrounding whitespace
NullOrProperName(x) ==
    \/ x.t = "null"
    \/ /\ x.t = "str"
       /\ x.v # << >>
       /\ Lower(Strip(x.v)) # NullText

\* C11: in every dict rewrite_query returns, city and country (a key that is
\* not there reads as None) are each None or a non-empty string, never the
\* text "null" in any letter case or with surrounding whitespace
C11_CityCountryNullOrProperName ==
    Rewritten =>
        /\ NullOrProperName(DictGet(Filter, "city", JNull))
        /\ NullOrProperName(DictGet(Filter, "country", JNull))

HasUpperCase(s) ==
    \E i \in 1..Len(s) : \E j \in 1..Len(UpperCase) : s[i] = UpperCase[j]

Trimmed(s) ==
    s = << >> \/ (s[1] \notin Whitespace /\ s[Len(s)] \notin Whitespace)

HasWhitespaceRun(s) ==
    \E i \in 1..(Len(s) - 1) : s[i] \in Whitespace /\ s[i + 1] \in Whitespace

\* the entries of the activities list of the returned dict
ReturnedActivities == Filter["activities"].v

\* C12 as stated: every returned activity is a str without upper-case
\* letters, without leading or trailing whitespace and without a run of
\* internal whitespace
C12_ActivitiesWhitespaceNormalized ==
    Rewritten =>
        \A i \in 1..Len(ReturnedActivities) :
            LET a == ReturnedActivities[i]
            IN /\ a.t = "str"
               /\ ~HasUpperCase(a.v)
               /\ Trimmed(a.v)
               /\ ~HasWhitespaceRun(a.v)

\* C12 amended: every returned activity is a str without upper-case letters
\* and without leading or trailing whitespace; whitespace inside an entry is
\* returned as the reply had it
C12_ActivitiesLowerTrimmed ==
    Rewritten =>
        \A i \in 1..Len(ReturnedActivities) :
            LET a == ReturnedActivities[i]
            IN /\ a.t = "str"
               /\ ~HasUpperCase(a.v)
               /\ Trimmed(a.v)

\* the activities list of the reply, when the reply is one JSON object
\* that has one
RepliedActivities ==
    IF /\ llm_reply.kind = "content"
       /\ Len(llm_reply.content) = 1
       /\ llm_reply.content[1].tok = "value"
       /\ llm_reply.content[1].v.t = "dict"
       /\ "activities" \in DOMAIN llm_reply.content[1].v.v
       /\ llm_reply.content[1].v.v["activities"].t = "list"
    THEN llm_reply.content[1].v.v["activities"].v
    ELSE << >>

\* an activity replied with upper-case letters and whitespace around and
\* inside it was normalized and returned
C12_Witness ==
    /\ Rewritten
    /\ rewrite_outcome.caught = ""
    /\ \E i \in 1..Len(RepliedActivities) :
          /\ RepliedActivities[i].t = "str"
          /\ HasUpperCase(RepliedActivities[i].v)
          /\ ~Trimmed(RepliedActivities[i].v)
          /\ HasWhitespaceRun(RepliedActivities[i].v)
    /\ Len(ReturnedActivities) = Len(RepliedActivities)

-----------------------------------------------------------------------------
(* Claims about ImprovedRetriever.search_with_filters.                     *)

SwfReturned == swf_pc = "returned"

\* C13: when the activity filter is non-empty and the strict pass returns no
\* hit, the relaxed free-text pass is run against the backend before the
\* call returns; with an activity filter an empty result is returned only
\* after both passes were empty
C13_RelaxedPassBeforeEmptyResult ==
    SwfReturned =>
        /\ (HasActivityFilter(swf_activities) /\ swf_searches[1].hits = << >>) =>
              /\ Len(swf_searches) = 2
              /\ swf_searches[2].query =
                    RelaxedQuery(swf_city, swf_country, swf_activities)
        /\ (HasActivityFilter(swf_activities) /\ swf_results = << >>) =>
              /\ Len(swf_searches) = 2
              /\ swf_searches[1].hits = << >>
              /\ swf_searches[2].hits = << >>

\* the strict pass found nothing for an activity filter, the relaxed pass
\* found something, and that is what the call returned
C13_Witness ==
    /\ SwfReturned
    /\ HasActivityFilter(swf_activities)
    /\ Len(swf_searches) = 2
    /\ swf_searches[1].hits = << >>
    /\ swf_searches[2].hits # << >>
    /\ swf_results # << >>

\* the relaxed pass was run
RelaxedPassRun == SwfReturned /\ Len(swf_searches) = 2

\* the conjuncts of a query: the subqueries of an And, else the query itself
Conjuncts(q) == IF q.class = "And" THEN q.subqueries ELSE <<q>>

\* the clause parsed from the lower-cased name of a location
LocationClause(name) == Parse(Lower(name))

\* the location clauses among the conjuncts of the strict query
StrictLocationClauses ==
    {c \in Range(Conjuncts(swf_searches[1].query)) :
        \/ (swf_city # NoneStr /\ c = LocationClause(swf_city))
        \/ (swf_country # NoneStr /\ c = LocationClause(swf_country))}

\* the expansions of all the activities of the filter
AllExpandedTerms == UNION {expand_activity(a) : a \in Range(swf_activities)}

\* the relaxed query is a free-text clause over terms, ANDed with the city
\* clause when city is present and with the country clause when country is
\* present, and with nothing else
RelaxedShape(terms) ==
    LET conjuncts == Conjuncts(swf_searches[2].query)
        free == conjuncts[1]
        rest == SubSeq(conjuncts, 2, Len(conjuncts))
    IN /\ free.class = "Parsed" /\ free.fieldname = "content"
       /\ free.texts = terms
       /\ rest = (IF swf_city # NoneStr THEN <<LocationClause(swf_city)>> ELSE << >>)
                 \o (IF swf_country # NoneStr THEN <<LocationClause(swf_country)>>
                     ELSE << >>)
       /\ StrictLocationClauses \subseteq Range(rest)

\* C14 as stated: the relaxed query is the free-text OR over the expanded
\* activity terms, ANDed with the city clause whenever city is present and
\* with the country clause whenever country is present; no location clause
\* of the strict pass is dropped
C14_RelaxedQueryAsStated ==
    RelaxedPassRun => RelaxedShape(AllExpandedTerms)

\* C14 amended: the free-text OR is over the expanded activity terms and the
\* plural/singular variant of each of them (its final s removed, or an s
\* added); the location clauses are as stated
C14_RelaxedQueryKeepsLocation ==
    RelaxedPassRun =>
        RelaxedShape(AllExpandedTerms
                     \cup {PluralSingular(e) : e \in AllExpandedTerms})

\* the relaxed pass of a call that filters by city and by country
C14_Witness ==
    /\ RelaxedPassRun
    /\ swf_city # NoneStr
    /\ swf_country # NoneStr
    /\ Cardinality(StrictLocationClauses) = 2

-----------------------------------------------------------------------------
(* Claims about ActivityMatcher.expand_activity.                           *)

Expanded == ea_pc = "returned"

\* the words of a list joined by single spaces
RECURSIVE JoinWords(_)
JoinWords(words) ==
    IF words = << >> THEN << >>
    ELSE IF Len(words) = 1 THEN words[1]
    ELSE words[1] \o <<" ">> \o JoinWords(Tail(words))

\* the normalized form of a term: lower-case, trimmed, internal whitespace
\* collapsed to single spaces
NormalForm(t) == JoinWords(SplitWords(Lower(t)))

\* the lower-cased, trimmed term: its first to its last non-blank character
LowerTrimmed(t) ==
    LET nonblank == {i \in 1..Len(t) : t[i] \notin Whitespace}
    IN IF nonblank = {} THEN << >>
       ELSE LET first == CHOOSE i \in nonblank : \A j \in nonblank : i <= j
                last == CHOOSE i \in nonblank : \A j \in nonblank : j <= i
            IN Lower(SubSeq(t, first, last))

\* C15: expand_activity(t) contains the normalized form of t and the
\* lower-cased, trimmed t
C15_ExpansionContainsIdentity ==
    Expanded =>
        /\ NormalForm(ea_activity) \in ea_expanded
        /\ LowerTrimmed(ea_activity) \in ea_expanded

\* a term whose normalized form differs from its lower-cased, trimmed form
\* and from the term itself was expanded
C15_Witness ==
    /\ Expanded
    /\ NormalForm(ea_activity) # LowerTrimmed(ea_activity)
    /\ LowerTrimmed(ea_activity) # ea_activity
    /\ {NormalForm(ea_activity), LowerTrimmed(ea_activity)} \subseteq ea_expanded

Tour == <<"t","o","u","r">>
Tours == <<"t","o","u","r","s">>

\* C16: with n the normalized form of t, n without its last character is in
\* expand_activity(t) if n ends in s, else n with an s appended is; the
\* expansions of tour and of tours each contain both tour and tours
C16_PluralSingularToggle ==
    Expanded =>
        LET n == NormalForm(ea_activity)
        IN /\ IF n # << >> /\ n[Len(n)] = "s"
              THEN SubSeq(n, 1, Len(n) - 1) \in ea_expanded
              ELSE Append(n, "s") \in ea_expanded
           /\ ea_activity \in {Tour, Tours} => {Tour, Tours} \subseteq ea_expanded

\* a term that ends in s and is in no table was expanded to its singular
C16_Witness ==
    /\ Expanded
    /\ ea_activity = <<"g","l","a","s","s">>
    /\ <<"g","l","a","s">> \in ea_expanded

\* sub occurs in s as a run of consecutive characters
OccursIn(sub, s) ==
    \E i \in 0..(Len(s) - Len(sub)) :
        \A j \in 1..Len(sub) : s[i + j] = sub[j]

OutdoorActivities ==
    <<"o","u","t","d","o","o","r"," ","a","c","t","i","v","i","t","i","e","s">>

\* C17: for every category c such that the normalized term contains c or is
\* contained in c, expand_activity(t) includes every activity of c; the
\* expansion of "outdoor activities" has more than 10 members, hiking and
\* snorkeling among them
C17_SubstringCategoryMatching ==
    Expanded =>
        /\ \A i \in 1..Len(CATEGORIES) :
              LET c == CATEGORIES[i].key
                  n == NormalForm(ea_activity)
              IN (OccursIn(c, n) \/ OccursIn(n, c)) =>
                    \A k \in 1..Len(CATEGORIES[i].values) :
                        CATEGORIES[i].values[k] \in ea_expanded
        /\ ea_activity = OutdoorActivities =>
              /\ Cardinality(ea_expanded) > 10
              /\ <<"h","i","k","i","n","g">> \in ea_expanded
              /\ <<"s","n","o","r","k","e","l","i","n","g">> \in ea_expanded

\* a term that is only a part of a category name was expanded to the
\* activities of that category
C17_Witness ==
    /\ Expanded
    /\ ea_activity = <<"o","u","t">>
    /\ <<"k","a","y","a","k","i","n","g">> \in ea_expanded

\* C18: for every key k of the synonym table and every synonym s listed for
\* k, s is in expand_activity(k) and k is in expand_activity(s), also when s
\* is not a key of the table
C18_SynonymsBidirectional ==
    Expanded =>
        \A i \in 1..Len(SYNONYMS) : \A j \in 1..Len(SYNONYMS[i].values) :
            LET k == SYNONYMS[i].key
                syn == SYNONYMS[i].values[j]
            IN /\ ea_activity = k => syn \in ea_expanded
               /\ ea_activity = syn => k \in ea_expanded

\* a synonym that is not a key of the table was expanded to its key
C18_Witness ==
    /\ Expanded
    /\ ea_activity = <<"g","u","i","d","e","d"," ","t","o","u","r">>
    /\ \A i \in 1..Len(SYNONYMS) : SYNONYMS[i].key # ea_activity
    /\ Tour \in ea_expanded

-----------------------------------------------------------------------------
(* Claims about ActivityMatcher._fuzzy_match and _simple_similarity.       *)

Matched == fm_pc = "returned" /\ fm_outcome.outcome = "matched"

SimilarityReturned == fm_pc = "returned" /\ fm_outcome.outcome = "similarity"

\* s without the suffix, when s ends in it
RemoveSuffix(s, suffix) ==
    IF Len(s) >= Len(suffix)
       /\ \A j \in 1..Len(suffix) : s[Len(s) - Len(suffix) + j] = suffix[j]
    THEN SubSeq(s, 1, Len(s) - Len(suffix))
    ELSE s

\* s with the suffixes s, es and ing removed, each as a whole suffix
SuffixFreeBase(s) ==
    RemoveSuffix(RemoveSuffix(RemoveSuffix(s, <<"s">>), <<"e","s">>),
                 <<"i","n","g">>)

\* (c): one is the other plus a trailing s or es, or both have the same
\* suffix-free base of more than two characters
PluralVariantAsStated(a, b) ==
    \/ a = b \o <<"s">> \/ a = b \o <<"e","s">>
    \/ b = a \o <<"s">> \/ b = a \o <<"e","s">>
    \/ SuffixFreeBase(a) = SuffixFreeBase(b) /\ Len(SuffixFreeBase(a)) > 2

\* (d): (characters of a that occur in b) / max(len(a), len(b)) >= 0.8
SimilarAsStated(a, b) ==
    /\ a # << >> /\ b # << >>
    /\ 5 * Cardinality({i \in 1..Len(a) : \E j \in 1..Len(b) : a[i] = b[j]})
         >= 4 * (IF Len(a) > Len(b) THEN Len(a) ELSE Len(b))

\* C19: _fuzzy_match(a, b) is true exactly when, on the normalized strings,
\* (a) they are equal, or (b) one is a substring of the other, or (c) they
\* are plural/singular variants by whole suffixes, or (d) their similarity is
\* at least 0.8
C19_FuzzyMatchExactlyWhen ==
    Matched =>
        LET a == NormalForm(fm_query_activity)
            b == NormalForm(fm_data_activity)
        IN fm_outcome.match <=>
              \/ a = b
              \/ OccursIn(a, b) \/ OccursIn(b, a)
              \/ PluralVariantAsStated(a, b)
              \/ SimilarAsStated(a, b)

\* s with the characters at i and j exchanged
Swap(s, i, j) ==
    [k \in 1..Len(s) |-> IF k = i THEN s[j] ELSE IF k = j THEN s[i] ELSE s[k]]

\* s with the character at i written twice
Repeat(s, i) == SubSeq(s, 1, i) \o <<s[i]>> \o SubSeq(s, i + 1, Len(s))

\* exchanging two characters of either string leaves the similarity as it
\* is; every reordering is a sequence of such exchanges
OrderInsensitive ==
    /\ \A i, j \in 1..Len(fm_query_activity) :
          simple_similarity(Swap(fm_query_activity, i, j), fm_data_activity)
             = fm_outcome.similarity
    /\ \A i, j \in 1..Len(fm_data_activity) :
          simple_similarity(fm_query_activity, Swap(fm_data_activity, i, j))
             = fm_outcome.similarity

\* writing a character of either string once more leaves the similarity as
\* it is
MultiplicityInsensitive ==
    /\ \A i \in 1..Len(fm_query_activity) :
          simple_similarity(Repeat(fm_query_activity, i), fm_data_activity)
             = fm_outcome.similarity
    /\ \A i \in 1..Len(fm_data_activity) :
          simple_similarity(fm_query_activity, Repeat(fm_data_activity, i))
             = fm_outcome.similarity

AbcVersusCab ==
    fm_query_activity = <<"a","b","c">> /\ fm_data_activity = <<"c","a","b">>

One == [num |-> 1, den |-> 1]

\* C20 as stated: the similarity does not change when the characters of
\* either string are reordered or when a character a string already has is
\* repeated; abc versus cab scores 1.0
C20_SimilarityOrderAndMultiplicityInsensitive ==
    SimilarityReturned =>
        /\ OrderInsensitive
        /\ MultiplicityInsensitive
        /\ AbcVersusCab => fm_outcome.similarity = One

\* C20 amended: the similarity does not change when the characters of
\* either string are reordered; abc versus cab scores 1.0
C20_SimilarityOrderInsensitive ==
    SimilarityReturned =>
        /\ OrderInsensitive
        /\ AbcVersusCab => fm_outcome.similarity = One

\* the similarity of abc and cab was computed
C20_Witness ==
    /\ SimilarityReturned
    /\ AbcVersusCab
    /\ fm_outcome.similarity = One

-----------------------------------------------------------------------------
(* Properties of match_activities and find_matching_activities, checked    *)
(* under SpecMatch.                                                        *)

MatchReturned == ma_pc = "returned" /\ ma_outcome.outcome = "match"

FindReturned == ma_pc = "returned" /\ ma_outcome.outcome = "find"

\* the members of the union of the query terms' expansions
ExpansionMembers(query_activities) ==
    UNION {expand_activity(query_activities[i]) : i \in 1..Len(query_activities)}

\* the data term equals, after normalization, a member of the union
EqualsMember(query_activities, data_activity) ==
    \E member \in ExpansionMembers(query_activities) :
        Normalize(data_activity) = member

\* the data term passes _fuzzy_match against a member of the union
FuzzyMatchesMember(query_activities, data_activity) ==
    \E member \in ExpansionMembers(query_activities) :
        fuzzy_match(member, data_activity)

\* the criterion of one data term
Accepted(query_activities, data_activity) ==
    \/ EqualsMember(query_activities, data_activity)
    \/ FuzzyMatchesMember(query_activities, data_activity)

\* C21: match_activities returns false when either list is empty, and
\* otherwise true exactly when some data term equals, after normalization,
\* a member of the union of the query terms' expansions or passes
\* _fuzzy_match against such a member; ['snorkeling'] matches
\* ['snorkeling', 'diving'] and does not match ['hiking', 'camping'].
C21_MatchActivitiesCriterion ==
    MatchReturned =>
        /\ ma_outcome.match =
              (/\ ma_query_activities # << >>
               /\ ma_data_activities # << >>
               /\ \E i \in 1..Len(ma_data_activities) :
                      Accepted(ma_query_activities, ma_data_activities[i]))
        /\ (ma_query_activities = <<Snorkeling>>
            /\ ma_data_activities = <<Snorkeling, Diving>>) => ma_outcome.match
        /\ (ma_query_activities = <<Snorkeling>>
            /\ ma_data_activities = <<Hiking, Camping>>) => ~ma_outcome.match

\* a call that returned True although no data term is a member of the
\* union: the fuzzy match alone decided
C21_Witness ==
    /\ MatchReturned
    /\ ma_outcome.match
    /\ \A i \in 1..Len(ma_data_activities) :
           ~EqualsMember(ma_query_activities, ma_data_activities[i])

\* the positions of the data terms the criterion of match_activities accepts
AcceptedPositions(query_activities, data_activities) ==
    {i \in 1..Len(data_activities) : Accepted(query_activities, data_activities[i])}

\* the k-th accepted position, counted from the front of the data terms
KthPosition(positions, k) ==
    CHOOSE i \in positions : Cardinality({j \in positions : j <= i}) = k

\* C22: find_matching_activities returns, in the order of the data terms and
\* in their original form, exactly the occurrences of data terms that the
\* criterion of match_activities accepts, each occurrence once; the result is
\* non-empty exactly when match_activities returns true on the same arguments.
C22_FindMatchingActivitiesCollects ==
    FindReturned =>
        LET positions == AcceptedPositions(ma_query_activities, ma_data_activities)
            matches == ma_outcome.matches
        IN /\ Len(matches) = Cardinality(positions)
           /\ \A k \in 1..Len(matches) :
                  matches[k] = ma_data_activities[KthPosition(positions, k)]
           /\ (matches # << >>) =
                  match_activities(ma_query_activities, ma_data_activities)

\* a call that returned some of the data terms, not all, one of them in a
\* form that is not its normalized form
C22_Witness ==
    /\ FindReturned
    /\ ma_outcome.matches # << >>
    /\ Len(ma_outcome.matches) < Len(ma_data_activities)
    /\ \E k \in 1..Len(ma_outcome.matches) :
           Normalize(ma_outcome.matches[k]) # ma_outcome.matches[k]

-----------------------------------------------------------------------------
(* Properties of generate_embeddings_batch, checked under SpecEmbed.       *)

EmbeddingsReturned == eb_pc = "returned"

\* the batch of position i (batches are numbered from 1)
BatchOf(i, batch_size) == ((i - 1) \div batch_size) + 1

\* the embedding of the text at position i fails: the call for its batch
\* raises and so does the call for the text alone
EmbeddingFails(i) ==
    /\ BatchOf(i, eb_batch_size) \in eb_failing_batches
    /\ i \in eb_failing_texts

\* C23: generate_embeddings_batch returns one vector per input text, in
\* input order, whatever calls fail; a text whose embedding fails is
\* represented by a zero vector whose length is the embedding dimension of
\* the configured model.
C23_ZeroVectorOfModelDimension ==
    EmbeddingsReturned =>
        /\ Len(eb_embeddings) = Len(eb_texts)
        /\ \A i \in 1..Len(eb_texts) :
              IF EmbeddingFails(i)
              THEN /\ eb_embeddings[i].kind = "zero"
                   /\ eb_embeddings[i].length = get_embedding_dimension(eb_model)
              ELSE eb_embeddings[i] = Embedding(eb_model, eb_texts[i])

-----------------------------------------------------------------------------
(* The order of the calls of one hybrid request, checked under SpecHybrid. *)

\* the positions in hybrid_events at which the call has the event
EventPositions(call, event) ==
    {i \in 1..Len(hybrid_events) :
        hybrid_events[i] = [call |-> call, event |-> event]}

\* the first call has not ended (returned or raised) before the second is issued
DoesNotWaitFor(second, first) ==
    \A i \in EventPositions(second, "issued") :
        \A j \in EventPositions(first, "returned") \cup EventPositions(first, "raised") :
            i < j

\* both searches have returned before the fusion is issued
JoinedBeforeFusion ==
    \A k \in EventPositions("reciprocal_rank_fusion", "issued") :
        /\ \E i \in EventPositions("bm25_retriever.search", "returned") : i < k
        /\ \E j \in EventPositions("vector_retriever.search", "returned") : j < k

\* C24: within one hybrid request the BM25 search and the vector search are
\* issued concurrently, neither waiting for the other to return, and both are
\* joined before the rank fusion starts.
C24_SearchesIssuedConcurrently ==
    /\ DoesNotWaitFor("vector_retriever.search", "bm25_retriever.search")
    /\ DoesNotWaitFor("bm25_retriever.search", "vector_retriever.search")
    /\ JoinedBeforeFusion

-----------------------------------------------------------------------------
(* Properties of the repeated expansion, checked under SpecClosure.        *)

\* C25: starting from expand_activity(t) and repeatedly adding the expansion
\* of every member of the running union, the union stops growing after a
\* bounded number of rounds (the fourth round at the latest adds nothing),
\* and no member a round introduces has an expansion disjoint from the
\* running union.  Checked for every start term of the run, the category
\* terms among them.
C25_ExpansionReachesFixedPoint ==
    /\ fx_round >= 4 => fx_pc = "fixed"
    /\ fx_pc = "fixed" => ReExpand(fx_union) = fx_union
    /\ \A member \in fx_new : expand_activity(member) \cap fx_union # {}

\* a category term whose union grew for three rounds and then stood still
C25_Witness ==
    /\ fx_term \in CategoryTerms
    /\ fx_pc = "fixed"
    /\ fx_round = 4
    /\ ReExpand(fx_union) = fx_union
    /\ fx_union # expand_activity(fx_term)

\* the strict pass filters by activity
StrictActivityPass == SwfReturned /\ HasActivityFilter(swf_activities)

\* the clauses the strict query is stated to AND before the activity clause:
\* the parsed text clause, then the city and the country clause when present
StatedLeadingClauses ==
    <<Parse(swf_query)>>
    \o (IF swf_city # NoneStr THEN <<LocationClause(swf_city)>> ELSE << >>)
    \o (IF swf_country # NoneStr THEN <<LocationClause(swf_country)>> ELSE << >>)

\* a combined activity clause: the structured activities-field clause ORed
\* with a free-text clause of the content field
IsCombinedActivityClause(q) ==
    /\ q.class = "Or"
    /\ Len(q.subqueries) = 2
    /\ q.subqueries[1].class \in {"Or", "Term"}
    /\ q.subqueries[1].fieldname = "activities"
    /\ q.subqueries[2].class = "Parsed"
    /\ q.subqueries[2].fieldname = "content"

\* C26: with a non-empty activity list the strict query is the AND of the
\* parsed text clause, the city clause and the country clause when present,
\* and one combined activity clause; the text clause and the location clauses
\* are retained whatever their top-level form, and the structured activity
\* clause does not remain as a conjunct of its own.
C26_StrictQueryKeepsTextClause ==
    StrictActivityPass =>
        LET q == swf_searches[1].query
            leading == StatedLeadingClauses
        IN /\ q.class = "And"
           /\ Len(q.subqueries) = Len(leading) + 1
           /\ SubSeq(q.subqueries, 1, Len(leading)) = leading
           /\ IsCombinedActivityClause(q.subqueries[Len(q.subqueries)])
           /\ \A i \in 1..Len(leading) : q.subqueries[i].fieldname # "activities"

\* the combined activity clause of the strict query: its last conjunct, or
\* the query itself when nothing is ANDed with it
CombinedActivityClause ==
    LET q == swf_searches[1].query
    IN IF q.class = "And" THEN q.subqueries[Len(q.subqueries)] ELSE q

\* the terms the text-backstop clause of the strict query is built over
BackstopTerms == CombinedActivityClause.subqueries[2].texts

\* C27: the text-backstop clause of the strict pass is built over the first
\* 10 distinct expanded activity terms: it holds min(10, D) distinct terms,
\* D being the number of distinct expanded terms over all the activities of
\* the filter, and never more than 10.
C27_BackstopHoldsTenDistinctTerms ==
    StrictActivityPass =>
        /\ BackstopTerms \subseteq AllExpandedTerms
        /\ Cardinality(BackstopTerms) = Min(10, Cardinality(AllExpandedTerms))
        /\ Cardinality(BackstopTerms) <= 10

\* the hits of the search issued last
LastHits == swf_searches[Len(swf_searches)].hits

\* C28: search_with_filters issues at most two backend searches; the second,
\* relaxed search is issued only if the activity filter is non-empty and the
\* first, strict search returned no hit; the hits returned to the caller are
\* exactly those of the last search issued, in backend order.
C28_AtMostTwoSearchesLastOneReturned ==
    SwfReturned =>
        /\ Len(swf_searches) \in {1, 2}
        /\ Len(swf_searches) = 2 =>
              /\ HasActivityFilter(swf_activities)
              /\ swf_searches[1].hits = << >>
        /\ Len(swf_results) = Len(LastHits)
        /\ \A i \in 1..Len(swf_results) : swf_results[i].doc_id = LastHits[i]

\* two searches were issued and the call returned the two hits of the second
\* in the order of the backend, which is not the order of the identifiers
C28_Witness ==
    /\ SwfReturned
    /\ Len(swf_searches) = 2
    /\ LastHits = <<"d2", "d1">>
    /\ Len(swf_results) = 2
    /\ swf_results[1].doc_id = "d2"
    /\ RatLess(swf_results[2].score, swf_results[1].score)

-----------------------------------------------------------------------------
(* The count a response reports, checked under SpecHybrid.                 *)

\* search returned a response, of the bm25_only or of the hybrid method
SearchResponded == hybrid_pc = "done" /\ hybrid_response.outcome = "returned"

\* C29: in the response of every retrieval mode the reported num_results
\* equals the number of entries of the returned results list, for the hybrid
\* method also after the fused list was truncated to the requested limit.
C29_NumResultsCountsReturnedResults ==
    SearchResponded =>
        hybrid_response.num_results = Len(hybrid_response.results)

\* ---------------------------------------------------------------------
\* C30: reciprocal_rank_fusion never mutates its inputs. Over the step of
\* the call, both argument lists keep their length and order and every
\* document dict in them keeps its keys and values; "rrf_score",
\* "bm25_score" and "vector_score" are keys of the dicts of the returned
\* list only.
ScoreKeys == {"rrf_score", "bm25_score", "vector_score"}

KeysOf(results) == UNION {DOMAIN results[i] : i \in 1..Len(results)}

C30_FusionNeverMutatesInputs ==
    [][(fusion_pc = "call" /\ fusion_pc' = "returned")
        => /\ bm25_results' = bm25_results
           /\ vector_results' = vector_results
           /\ KeysOf(bm25_results') \cap ScoreKeys = {}
           /\ KeysOf(vector_results') \cap ScoreKeys = {}
           /\ \A i \in 1..Len(final_results') :
                  ScoreKeys \subseteq DOMAIN final_results'[i]]_vars

\* a returned call whose output holds a document of both lists and one of
\* the vector list only, while the dicts of both lists hold no score key
C30_Witness ==
    /\ Returned
    /\ \E i \in 1..Len(bm25_results), j \in 1..Len(vector_results) :
          /\ bm25_results[i].doc_id = vector_results[j].doc_id
          /\ bm25_results[i].doc_id # NoDocId
          /\ \E n \in 1..Len(final_results) :
                /\ final_results[n].doc_id = bm25_results[i].doc_id
                /\ ScoreKeys \subseteq DOMAIN final_results[n]
    /\ \E j \in 1..Len(vector_results) :
          /\ vector_results[j].doc_id # NoDocId
          /\ \A i \in 1..Len(bm25_results) :
                 bm25_results[i].doc_id # vector_results[j].doc_id
    /\ (KeysOf(bm25_results) \cup KeysOf(vector_results)) \cap ScoreKeys = {}

=============================================================================
